---- MODULE Spec2Model ----
(***************************************************************************)
(* custos_script: the bytecode compiler and the stack virtual machine.     *)
(*                                                                         *)
(* Values (Constant) are records tagged by t.  A Number is an f64 in the   *)
(* code; here it is an exact rational n/d in lowest terms with d > 0, so   *)
(* that + - * / and the comparisons are computed rather than assumed       *)
(* (rounding, infinities and NaN are outside the bounded operands).        *)
(* A String's payload is the sequence of its characters.                   *)
(***************************************************************************)
EXTENDS Integers, Sequences, FiniteSets

VARIABLES
    stack,      \* VirtualMachine.stack: the operand stack, bottom first
    globals,    \* VirtualMachine.globals: name -> Constant
    frames,     \* VirtualMachine.frames: call frames, innermost last
    status,     \* "setup" (constructed, host registering natives), "running"
                \* (inside interpret()), "ok" (returned None), "error"
                \* (returned Some(message)), "panic" (the thread aborted)
    error,      \* the kind of the returned error message, "" when none
    natlog,     \* what the host callables have been invoked with, in order
    pending,    \* natives the host has still to register before interpret()
    input,      \* the scenario the host runs: its script and parameters
    last,       \* the instruction executed by the latest step and the state
                \* it started from (history, for stating per-step properties)
    written,    \* every write to the global table so far, in order: the
                \* natives registered and the values DefineGlobal and
                \* SetGlobal stored (history)
    parser,     \* the host's Parser: its phase, cursor p, declarations, the
                \* errors vector of parse(), the result of parse(), and every
                \* error pushed so far (history)
    other       \* a second VirtualMachine, owned by a host thread that is not
                \* running now: its stack, globals, frames and the rest of
                \* what the variables above hold for the running one

vars ==
    <<stack, globals, frames, status, error, natlog, pending, input, last, written,
      parser, other>>

-----------------------------------------------------------------------------
(* Bounds of the model *)

MaxNum == 2         \* Number operands range over -1 .. MaxNum
MaxArgs == 2        \* calls carry 0 .. MaxArgs arguments
MaxDepth == 4       \* call frames are capped (recursion is unbounded in the code)
MaxJump == 3        \* hand-assembled jumps carry offsets 0 .. MaxJump
MaxOperators == 2   \* operators of a parsed expression
MaxLit == 5         \* number literals of compiled scripts range over 0 .. MaxLit
MaxPieces == 3      \* a token stream is made of 1 .. MaxPieces pieces of source

-----------------------------------------------------------------------------
(* Constant: bytecode.rs enum Constant *)

RECURSIVE Gcd(_, _)
Gcd(a, b) == IF b = 0 THEN a ELSE Gcd(b, a % b)

Abs(x) == IF x < 0 THEN -x ELSE x

\* the f64 value n/d, d # 0, in lowest terms
Rat(n, d) ==
    LET g == Gcd(Abs(n), Abs(d))
        s == IF d < 0 THEN -1 ELSE 1
    IN  [t |-> "Number", n |-> (s * n) \div g, d |-> (s * d) \div g]

Number(n) == [t |-> "Number", n |-> n, d |-> 1]
Bool(b) == [t |-> "Bool", b |-> b]
String(s) == [t |-> "String", s |-> s]
None == [t |-> "None"]
Array(elems) == [t |-> "Array", elems |-> elems]
Function(arity, chunk, name) ==
    [t |-> "Function", arity |-> arity, chunk |-> chunk, name |-> name]
BuiltInMethod(name, func, arity) ==
    [t |-> "BuiltInMethod", name |-> name, func |-> func, arity |-> arity]

\* the top-level script: Function { arity: 0, name: "", kind: Script }
Script(chunk) == Function(0, chunk, "")

IsNumber(c) == c.t = "Number"
IsString(c) == c.t = "String"

\* f64 arithmetic on the rationals
NumAdd(a, b) == Rat(a.n * b.d + b.n * a.d, a.d * b.d)
NumSub(a, b) == Rat(a.n * b.d - b.n * a.d, a.d * b.d)
NumMul(a, b) == Rat(a.n * b.n, a.d * b.d)
NumDiv(a, b) == Rat(a.n * b.d, a.d * b.n)
NumGe(a, b) == a.n * b.d >= b.n * a.d
NumLe(a, b) == a.n * b.d <= b.n * a.d
NumGt(a, b) == a.n * b.d > b.n * a.d
NumLt(a, b) == a.n * b.d < b.n * a.d
NumIsZero(a) == a.n = 0

\* variant: zero and the empty String count as false too
is_falsey_or_empty(c) ==
    CASE c.t = "Bool" -> ~c.b
      [] c.t = "None" -> TRUE
      [] c.t = "Number" -> c.n = 0
      [] c.t = "String" -> c.s = <<>>
      [] OTHER -> FALSE

\* Constant::is_falsey
is_falsey(c) ==
    CASE c.t = "Bool" -> ~c.b
      [] c.t = "None" -> TRUE
      [] OTHER -> FALSE

Digit(k) == <<"0", "1", "2", "3", "4", "5", "6", "7", "8", "9">>[k + 1]

RECURSIVE NatChars(_)
NatChars(k) == IF k < 10 THEN <<Digit(k)>> ELSE NatChars(k \div 10) \o <<Digit(k % 10)>>

\* the digits of r/d (r < d) after the decimal point, at most k of them
RECURSIVE FracChars(_, _, _)
FracChars(r, d, k) ==
    IF r = 0 \/ k = 0 THEN <<>>
    ELSE <<Digit((r * 10) \div d)>> \o FracChars((r * 10) % d, d, k - 1)

\* f64::to_string: no fractional part for an integer, else the decimal digits
NumChars(c) ==
    LET a == Abs(c.n)
        whole == NatChars(a \div c.d)
        frac == FracChars(a % c.d, c.d, 16)
    IN  (IF c.n < 0 THEN <<"-">> ELSE <<>>) \o whole
        \o (IF frac = <<>> THEN <<>> ELSE <<".">> \o frac)

\* the characters of the names the scenarios use
NameChars(name) ==
    CASE name = "" -> <<>>
      [] name = "f" -> <<"f">>
      [] name = "g" -> <<"g">>
      [] name = "add" -> <<"a", "d", "d">>
      [] name = "main" -> <<"m", "a", "i", "n">>
      [] name = "mark" -> <<"m", "a", "r", "k">>
      [] name = "print" -> <<"p", "r", "i", "n", "t">>
      [] name = "send" -> <<"s", "e", "n", "d">>
      [] name = "get_args" -> <<"g", "e", "t", "_", "a", "r", "g", "s">>
      [] OTHER -> <<"?">>

\* Constant::get_string
get_string(c) ==
    CASE c.t = "Bool" ->
            IF c.b THEN <<"t", "r", "u", "e">> ELSE <<"f", "a", "l", "s", "e">>
      [] c.t = "Number" -> NumChars(c)
      [] c.t = "String" -> c.s
      [] c.t = "None" -> <<"n", "o", "n", "e">>
      [] c.t = "Function" ->
            <<"f", "n", " ", "<", "'">> \o NameChars(c.name) \o <<"'", " ">>
            \o NatChars(c.arity) \o <<">">>
      [] c.t = "BuiltInMethod" ->
            <<"f", "n", " ", "<", "b", "u", "i", "l", "t", "-", "i", "n", " ", "'">>
            \o NameChars(c.name) \o <<"'", " ">> \o NatChars(c.arity) \o <<">">>
      [] c.t = "Array" ->
            <<"a", "r", "r", "a", "y", " ", "<">> \o NatChars(Len(c.elems)) \o <<">">>

\* variant: equality of the two values as data, whatever the variant
ConstEqStructural(a, b) == a.t = b.t /\ a = b

\* impl PartialEq for Constant
ConstEq(a, b) ==
    CASE a.t = "Number" -> IF b.t = "Number" THEN a.n = b.n /\ a.d = b.d ELSE FALSE
      [] a.t = "Bool" -> IF b.t = "Bool" THEN a.b = b.b ELSE FALSE
      [] a.t = "String" -> IF b.t = "String" THEN a.s = b.s ELSE FALSE
      [] a.t = "None" -> b.t = "None"
      [] OTHER -> FALSE

(* impl PartialOrd for Constant: each method yields [r |-> "bool", v |-> _] or
   [r |-> "panic"] (panic!("Cannot compare non-numbers ...")). *)
PanicOut == [r |-> "panic"]
BoolOut(v) == [r |-> "bool", v |-> v]

ge(a, b) == IF IsNumber(a) /\ IsNumber(b) THEN BoolOut(NumGe(a, b)) ELSE PanicOut
le(a, b) == IF IsNumber(a) /\ IsNumber(b) THEN BoolOut(NumLe(a, b)) ELSE PanicOut
gt(a, b) == IF IsNumber(a) /\ IsNumber(b) THEN BoolOut(NumGt(a, b)) ELSE PanicOut
\* lt's body compares with >=, as the source does
lt(a, b) == IF IsNumber(a) /\ IsNumber(b) THEN BoolOut(NumGe(a, b)) ELSE PanicOut

-----------------------------------------------------------------------------
(* Instruction: bytecode.rs enum Instruction.  A Chunk is the sequence of its
   instructions (the parallel line numbers only feed the error text). *)

IConstant(c) == [op |-> "Constant", c |-> c]
IAdd == [op |-> "Add"]
ISubtract == [op |-> "Subtract"]
IMultiply == [op |-> "Multiply"]
IDivide == [op |-> "Divide"]
IDefineGlobal(name) == [op |-> "DefineGlobal", name |-> name]
ISetGlobal(name) == [op |-> "SetGlobal", name |-> name]
IGetGlobal(name) == [op |-> "GetGlobal", name |-> name]
IGetLocal(index) == [op |-> "GetLocal", index |-> index]
ISetLocal(index) == [op |-> "SetLocal", index |-> index]
ICall(n) == [op |-> "Call", n |-> n]
IPop == [op |-> "Pop"]
IEqual == [op |-> "Equal"]
INotEqual == [op |-> "NotEqual"]
IGreater == [op |-> "Greater"]
ILesser == [op |-> "Lesser"]
IGreaterEq == [op |-> "GreaterEq"]
ILesserEq == [op |-> "LesserEq"]
INot == [op |-> "Not"]
IJumpIfFalse(offset) == [op |-> "JumpIfFalse", offset |-> offset]
IJump(offset) == [op |-> "Jump", offset |-> offset]
IIndexInto == [op |-> "IndexInto"]
IArrayLiteral(count) == [op |-> "ArrayLiteral", count |-> count]
IReturn == [op |-> "Return"]

-----------------------------------------------------------------------------
(* What one instruction does to its operands.  An outcome is
   [r |-> "push", v |-> the Constant pushed], [r |-> "error", kind |-> _]
   (interpret() returns Some(message)) or [r |-> "panic"]. *)

PushOut(v) == [r |-> "push", v |-> v]
ErrorOut(kind) == [r |-> "error", kind |-> kind]

\* variant: the right operand's text is put first
AddOutcomeRightFirst(a, b) ==
    IF IsString(a) \/ IsString(b) THEN PushOut(String(get_string(b) \o get_string(a)))
    ELSE IF ~IsNumber(b) THEN ErrorOut("InvalidOperand")
    ELSE IF ~IsNumber(a) THEN ErrorOut("InvalidOperand")
    ELSE PushOut(NumAdd(a, b))

\* Instruction::Add on left operand a and right operand b
AddOutcome(a, b) ==
    IF IsString(a) \/ IsString(b) THEN PushOut(String(get_string(a) \o get_string(b)))
    ELSE IF ~IsNumber(b) THEN ErrorOut("InvalidOperand")
    ELSE IF ~IsNumber(a) THEN ErrorOut("InvalidOperand")
    ELSE PushOut(NumAdd(a, b))

\* Instruction::Subtract
SubtractOutcome(a, b) ==
    IF ~IsNumber(b) THEN ErrorOut("InvalidOperand")
    ELSE IF ~IsNumber(a) THEN ErrorOut("InvalidOperand")
    ELSE PushOut(NumSub(a, b))

\* variant: the left operand's type is examined before the zero test
DivideOutcomeLeftFirst(a, b) ==
    IF ~IsNumber(a) THEN ErrorOut("InvalidOperand")
    ELSE IF ~IsNumber(b) THEN ErrorOut("InvalidOperand")
    ELSE IF NumIsZero(b) THEN ErrorOut("DivisionByZero")
    ELSE PushOut(NumDiv(a, b))

\* Instruction::Divide: the right operand is examined first
DivideOutcome(a, b) ==
    IF IsNumber(b) /\ NumIsZero(b) THEN ErrorOut("DivisionByZero")
    ELSE IF ~IsNumber(b) THEN ErrorOut("InvalidOperand")
    ELSE IF ~IsNumber(a) THEN ErrorOut("InvalidOperand")
    ELSE PushOut(NumDiv(a, b))

\* Instruction::Multiply: carries Divide's zero test on the right operand
MultiplyOutcome(a, b) ==
    IF IsNumber(b) /\ NumIsZero(b) THEN ErrorOut("DivisionByZero")
    ELSE IF ~IsNumber(b) THEN ErrorOut("InvalidOperand")
    ELSE IF ~IsNumber(a) THEN ErrorOut("InvalidOperand")
    ELSE PushOut(NumMul(a, b))

\* Instruction::Equal / NotEqual (ne is the derived negation of eq)
EqualOutcome(a, b) == PushOut(Bool(ConstEq(a, b)))
NotEqualOutcome(a, b) == PushOut(Bool(~ConstEq(a, b)))

OrdOutcome(o) == IF o.r = "bool" THEN PushOut(Bool(o.v)) ELSE PanicOut

\* Instruction::Greater / GreaterEq / Lesser / LesserEq: a > b, a >= b, a < b, a <= b
GreaterOutcome(a, b) == OrdOutcome(gt(a, b))
GreaterEqOutcome(a, b) == OrdOutcome(ge(a, b))
LesserOutcome(a, b) == OrdOutcome(lt(a, b))
LesserEqOutcome(a, b) == OrdOutcome(le(a, b))

-----------------------------------------------------------------------------
(* The host's callables (BuiltInMethod.func), named by tag *)

HostArgs == <<String(<<"a">>), String(<<"b">>)>>

HostCall(func, args) ==
    CASE func = "print" -> None
      [] func = "send" ->
            IF Len(args) >= 1 /\ IsString(args[1]) THEN String(<<"i", "d">>) ELSE None
      [] func = "get_args" -> Array(HostArgs)
      [] OTHER -> None

-----------------------------------------------------------------------------
(* VirtualMachine *)

Top(s) == s[Len(s)]
Front(s, k) == SubSeq(s, 1, k)              \* the k bottom values of s
Truncate(s, k) == IF k < Len(s) THEN SubSeq(s, 1, k) ELSE s     \* VecDeque::truncate
\* variant: a name already bound keeps its value
InsertIfAbsent(g, name, v) ==
    [x \in (DOMAIN g) \cup {name} |-> IF x \in DOMAIN g THEN g[x] ELSE v]

\* HashMap::insert
Insert(g, name, v) == [x \in (DOMAIN g) \cup {name} |-> IF x = name THEN v ELSE g[x]]

Cur == frames[Len(frames)]
InChunk == Cur.ip < Len(Cur.function.chunk)
Ins == Cur.function.chunk[Cur.ip + 1]
Fetched(opname) == status = "running" /\ frames # <<>> /\ InChunk /\ Ins.op = opname

Advance(fs) == [fs EXCEPT ![Len(fs)].ip = @ + 1]
JumpBy(fs, k) == [fs EXCEPT ![Len(fs)].ip = @ + k]

Snapshot ==
    [ins |-> Ins, fn |-> Cur.function.name, ip |-> Cur.ip, stack |-> stack,
     frames |-> frames, globals |-> globals, natlog |-> natlog]

NoStep == [ins |-> [op |-> "none"]]

Effect(s, g, f, st, e, n) ==
    /\ stack' = s
    /\ globals' = g
    /\ frames' = f
    /\ status' = st
    /\ error' = e
    /\ natlog' = n
    /\ last' = Snapshot
    /\ written' = IF Ins.op \in {"DefineGlobal", "SetGlobal"} /\ st = "running"
                  THEN Append(written, [name |-> Ins.name, value |-> Top(stack)])
                  ELSE written
    /\ UNCHANGED <<pending, input, parser, other>>

\* the loop goes on to ip + 1 of the innermost frame
Goto(s, g) == Effect(s, g, Advance(frames), "running", "", natlog)
Fail(s, kind) == Effect(s, globals, frames, "error", kind, natlog)
Abort(s) == Effect(s, globals, frames, "panic", "", natlog)

\* the operands of a binary instruction: right on top, left below it
Right == stack[Len(stack)]
Left == stack[Len(stack) - 1]

\* pop right then left (unwrap), then push or fail with outcome o of the two
BinaryStep(o) ==
    IF Len(stack) < 2 THEN Abort(<<>>)
    ELSE LET rest == Front(stack, Len(stack) - 2)
         IN  CASE o.r = "push" -> Goto(rest \o <<o.v>>, globals)
               [] o.r = "error" -> Fail(rest, o.kind)
               [] OTHER -> Abort(rest)

-----------------------------------------------------------------------------
(* VirtualMachine::call_value, entered after Call(arg_count) has peeked the
   callee at depth arg_count of stack s.  The arity tests build the
   "accepts .. arguments" message with self.error(..) and drop it.
   The outcome is the CallResult together with what was changed. *)

\* variant: the callee's own slot is left out of the window
SlotOffsetWithoutCallee(s, arg_count) == Len(s) - arg_count

SlotOffset(s, arg_count) == Len(s) - arg_count - 1

\* variant: the arguments are collected top first
RECURSIVE Reversed(_)
Reversed(q) == IF q = <<>> THEN <<>> ELSE Reversed(Tail(q)) \o <<Head(q)>>
NativeArgsTopFirst(s, arg_count) == Reversed(SubSeq(s, Len(s) - arg_count + 1, Len(s)))

\* the arguments handed to a native: stack.range(len - arg_count ..)
NativeArgs(s, arg_count) == SubSeq(s, Len(s) - arg_count + 1, Len(s))

call_value(s, callee, arg_count) ==
    CASE callee.t = "Function" ->
            [r |-> "Ok",
             frame |-> [function |-> callee, ip |-> 0,
                        slot_offset |-> SlotOffset(s, arg_count)]]
      [] callee.t = "BuiltInMethod" ->
            LET removed == NativeArgs(s, arg_count)
                result == HostCall(callee.func, removed)
            IN  [r |-> "OkNative",
                 invoked |-> [name |-> callee.name, args |-> removed],
                 stack |-> Truncate(s, Len(s) - arg_count - 1) \o <<result>>]
      [] OTHER -> [r |-> "Err"]

-----------------------------------------------------------------------------
(* The host: VirtualMachine::new, define_built_in_fn, then interpret() *)

\* no second instance
NoInstance == [status |-> "none"]

\* the instance the running thread owns
ThisInstance ==
    [stack |-> stack, globals |-> globals, frames |-> frames, status |-> status,
     error |-> error, natlog |-> natlog, pending |-> pending, input |-> input,
     last |-> last, written |-> written]

\* VirtualMachine::new(script), with the natives its host will register
NewInstance(scenario) ==
    [stack |-> <<>>, globals |-> <<>>,
     frames |-> <<[function |-> scenario.script, ip |-> 0, slot_offset |-> 0]>>,
     status |-> "setup", error |-> "", natlog |-> <<>>, pending |-> scenario.natives,
     input |-> scenario, last |-> NoStep, written |-> <<>>]

\* variant: the global table is one for every instance
ResumeOnSharedGlobals(vm) ==
    /\ stack' = vm.stack
    /\ globals' = globals
    /\ frames' = vm.frames
    /\ status' = vm.status
    /\ error' = vm.error
    /\ natlog' = vm.natlog
    /\ pending' = vm.pending
    /\ input' = vm.input
    /\ last' = vm.last
    /\ written' = vm.written

\* a thread goes on with the instance it owns: every field is the
\* instance's own (stack, globals and frames are owned by the struct)
Resume(vm) ==
    /\ stack' = vm.stack
    /\ globals' = vm.globals
    /\ frames' = vm.frames
    /\ status' = vm.status
    /\ error' = vm.error
    /\ natlog' = vm.natlog
    /\ pending' = vm.pending
    /\ input' = vm.input
    /\ last' = vm.last
    /\ written' = vm.written

\* the thread pool runs the other command's closure for a while
Switch ==
    /\ other.status # "none"
    /\ other' = ThisInstance
    /\ Resume(other)
    /\ UNCHANGED parser

\* VirtualMachine::define_built_in_fn, for the next native the host registers
DefineBuiltInFn ==
    /\ status = "setup"
    /\ pending # <<>>
    /\ globals' = Insert(globals, Head(pending).name, Head(pending))
    /\ pending' = Tail(pending)
    /\ written' = Append(written, [name |-> Head(pending).name, value |-> Head(pending)])
    /\ UNCHANGED <<stack, frames, status, error, natlog, input, last, parser, other>>

\* the host calls interpret()
Interpret ==
    /\ status = "setup"
    /\ pending = <<>>
    /\ status' = "running"
    /\ UNCHANGED <<stack, globals, frames, error, natlog, pending, input, last, written,
                   parser, other>>

(* interpret(): one action per instruction of the dispatch *)

\* chunk[frame.ip] with ip past the chunk's end: index out of bounds
FetchOutOfBounds ==
    /\ status = "running"
    /\ frames # <<>>
    /\ ~InChunk
    /\ status' = "panic"
    /\ last' = [ins |-> [op |-> "fetch"], fn |-> Cur.function.name, ip |-> Cur.ip,
                stack |-> stack, frames |-> frames, globals |-> globals,
                natlog |-> natlog]
    /\ UNCHANGED <<stack, globals, frames, error, natlog, pending, input, written, parser,
                   other>>

Constant == Fetched("Constant") /\ Goto(stack \o <<Ins.c>>, globals)

Add == Fetched("Add") /\ BinaryStep(AddOutcome(Left, Right))
Subtract == Fetched("Subtract") /\ BinaryStep(SubtractOutcome(Left, Right))
Divide == Fetched("Divide") /\ BinaryStep(DivideOutcome(Left, Right))
Multiply == Fetched("Multiply") /\ BinaryStep(MultiplyOutcome(Left, Right))
Equal == Fetched("Equal") /\ BinaryStep(EqualOutcome(Left, Right))
NotEqual == Fetched("NotEqual") /\ BinaryStep(NotEqualOutcome(Left, Right))
Greater == Fetched("Greater") /\ BinaryStep(GreaterOutcome(Left, Right))
GreaterEq == Fetched("GreaterEq") /\ BinaryStep(GreaterEqOutcome(Left, Right))
Lesser == Fetched("Lesser") /\ BinaryStep(LesserOutcome(Left, Right))
LesserEq == Fetched("LesserEq") /\ BinaryStep(LesserEqOutcome(Left, Right))

\* variant: a missing name reads as None
GetGlobalOrNone ==
    /\ Fetched("GetGlobal")
    /\ Goto(stack \o <<IF Ins.name \in DOMAIN globals THEN globals[Ins.name] ELSE None>>,
            globals)

GetGlobal ==
    /\ Fetched("GetGlobal")
    /\ IF Ins.name \in DOMAIN globals
       THEN Goto(stack \o <<globals[Ins.name]>>, globals)
       ELSE Fail(stack, "UndefinedGlobal")

\* peek_back() expects a value; the value is inserted, then popped
DefineGlobal ==
    /\ Fetched("DefineGlobal")
    /\ IF stack = <<>> THEN Abort(stack)
       ELSE Goto(Front(stack, Len(stack) - 1), Insert(globals, Ins.name, Top(stack)))

\* as DefineGlobal, and the value stays on the stack
SetGlobal ==
    /\ Fetched("SetGlobal")
    /\ IF stack = <<>> THEN Abort(stack)
       ELSE Goto(stack, Insert(globals, Ins.name, Top(stack)))

GetLocal ==
    /\ Fetched("GetLocal")
    /\ LET index == Cur.slot_offset + Ins.index
       IN  IF index < Len(stack)
           THEN Goto(stack \o <<stack[index + 1]>>, globals)
           ELSE Fail(stack, "InvalidLocalAccess")

(* SetLocal pops the value, then writes it to the slot if the slot is inside
   the popped stack; when it is not, the error text is built and dropped. *)
SetLocal ==
    /\ Fetched("SetLocal")
    /\ LET index == Cur.slot_offset + Ins.index
           popped == Front(stack, Len(stack) - 1)
       IN  IF stack = <<>> THEN Fail(stack, "InvalidLocalAccess")
           ELSE IF index < Len(popped)
           THEN Goto([popped EXCEPT ![index + 1] = Top(stack)], globals)
           ELSE Goto(popped, globals)

\* pop_back(), its Option ignored
Pop ==
    /\ Fetched("Pop")
    /\ Goto(IF stack = <<>> THEN stack ELSE Front(stack, Len(stack) - 1), globals)

\* variant: a callee that cannot be called is passed over
CallOrSkip ==
    /\ Fetched("Call")
    /\ IF Len(stack) < Ins.n + 1 THEN Abort(stack)
       ELSE LET res == call_value(stack, stack[Len(stack) - Ins.n], Ins.n)
            IN  CASE res.r = "Ok" ->
                        /\ Len(frames) < MaxDepth
                        /\ Effect(stack, globals, frames \o <<res.frame>>,
                                  "running", "", natlog)
                  [] res.r = "OkNative" ->
                        Effect(res.stack, globals, Advance(frames), "running", "",
                               natlog \o <<res.invoked>>)
                  [] OTHER -> Goto(stack, globals)

(* Call(arg_count): peek(arg_count) aborts when the stack holds fewer than
   arg_count + 1 values; a Function call continues the loop without moving
   the caller's ip, a native call moves it by one. *)
Call ==
    /\ Fetched("Call")
    /\ IF Len(stack) < Ins.n + 1 THEN Abort(stack)
       ELSE LET res == call_value(stack, stack[Len(stack) - Ins.n], Ins.n)
            IN  CASE res.r = "Ok" ->
                        /\ Len(frames) < MaxDepth
                        /\ Effect(stack, globals, frames \o <<res.frame>>,
                                  "running", "", natlog)
                  [] res.r = "OkNative" ->
                        Effect(res.stack, globals, Advance(frames), "running", "",
                               natlog \o <<res.invoked>>)
                  [] OTHER -> Fail(stack, "NotCallable")

\* peek(0) aborts on an empty stack; the loop's ip += 1 follows the jump
JumpIfFalse ==
    /\ Fetched("JumpIfFalse")
    /\ IF stack = <<>> THEN Abort(stack)
       ELSE Effect(stack, globals,
                   Advance(IF is_falsey(Top(stack)) THEN JumpBy(frames, Ins.offset)
                           ELSE frames),
                   "running", "", natlog)

Jump ==
    /\ Fetched("Jump")
    /\ Effect(stack, globals, Advance(JumpBy(frames, Ins.offset)), "running", "", natlog)

Not ==
    /\ Fetched("Not")
    /\ IF stack = <<>> THEN Abort(stack)
       ELSE Goto(Front(stack, Len(stack) - 1) \o <<Bool(is_falsey(Top(stack)))>>, globals)

\* `n as usize`: toward zero, negative values saturate to 0
AsUsize(c) == IF c.n < 0 THEN 0 ELSE c.n \div c.d

\* variant: positions are counted from 1
IndexIntoOutcomeFromOne(v, i) ==
    IF ~IsNumber(i) THEN ErrorOut("InvalidIndex")
    ELSE LET index == AsUsize(i)
         IN  CASE v.t = "String" ->
                    PushOut(IF 0 < index /\ index <= Len(v.s) THEN String(<<v.s[index]>>)
                            ELSE None)
               [] v.t = "Array" ->
                    PushOut(IF 0 < index /\ index <= Len(v.elems) THEN v.elems[index]
                            ELSE None)
               [] OTHER -> ErrorOut("NotIndexable")

\* Instruction::IndexInto on subject v and index i
IndexIntoOutcome(v, i) ==
    IF ~IsNumber(i) THEN ErrorOut("InvalidIndex")
    ELSE LET index == AsUsize(i)
         IN  CASE v.t = "String" ->
                    PushOut(IF index < Len(v.s) THEN String(<<v.s[index + 1]>>) ELSE None)
               [] v.t = "Array" ->
                    PushOut(IF index < Len(v.elems) THEN v.elems[index + 1] ELSE None)
               [] OTHER -> ErrorOut("NotIndexable")

IndexInto == Fetched("IndexInto") /\ BinaryStep(IndexIntoOutcome(Left, Right))

\* pops count values (unwrap), restores their push order
ArrayLiteral ==
    /\ Fetched("ArrayLiteral")
    /\ IF Len(stack) < Ins.count THEN Abort(<<>>)
       ELSE Goto(Front(stack, Len(stack) - Ins.count)
                 \o <<Array(SubSeq(stack, Len(stack) - Ins.count + 1, Len(stack)))>>,
                 globals)

(* Return: pop the value (unwrap), pop the frame; with no frame left
   interpret() returns None; else truncate to the popped frame's slot_offset,
   push the value, and the loop's ip += 1 moves the caller on. *)
Return ==
    /\ Fetched("Return")
    /\ IF stack = <<>> THEN Abort(stack)
       ELSE LET ret_val == Top(stack)
                popped == Front(stack, Len(stack) - 1)
                offset == Cur.slot_offset
                rest == Front(frames, Len(frames) - 1)
            IN  IF rest = <<>>
                THEN Effect(popped, globals, rest, "ok", "", natlog)
                ELSE Effect(Truncate(popped, offset) \o <<ret_val>>, globals,
                            Advance(rest), "running", "", natlog)

-----------------------------------------------------------------------------
(* AST: ast.rs enum Node (source locations left out) *)

NNumber(digits) == [k |-> "Number", digits |-> digits]
NStringLiteral(chars) == [k |-> "StringLiteral", s |-> chars]
NBoolLiteral(b) == [k |-> "BoolLiteral", b |-> b]
NVarGet(name) == [k |-> "VarGet", name |-> name]
NBinary(lhs, op, rhs) == [k |-> "Binary", lhs |-> lhs, op |-> op, rhs |-> rhs]
NUnary(op, expr) == [k |-> "Unary", op |-> op, expr |-> expr]
NLogical(lhs, op, rhs) == [k |-> "Logical", lhs |-> lhs, op |-> op, rhs |-> rhs]
NGrouping(expr) == [k |-> "Grouping", expr |-> expr]
NCall(callee, args) == [k |-> "Call", callee |-> callee, args |-> args]
NVarDecl(name, value) == [k |-> "VarDecl", name |-> name, value |-> value]
NAssign(name, value) == [k |-> "Assign", name |-> name, value |-> value]
NFunction(name, args, body) == [k |-> "Function", name |-> name, args |-> args, body |-> body]
NBlock(statements) == [k |-> "Block", statements |-> statements]
NIf(condition, then_block, else_block) ==
    [k |-> "If", condition |-> condition, then_block |-> then_block,
     else_block |-> else_block]                     \* else_block: <<>> or <<node>>
NFor(name, target, body) == [k |-> "For", name |-> name, target |-> target, body |-> body]
NRet(value) == [k |-> "Ret", value |-> value]       \* value: <<>> or <<node>>
NExprStmt(expr) == [k |-> "ExprStmt", expr |-> expr]

-----------------------------------------------------------------------------
(* VariableManager (bytecode.rs) and Compiler (compiler.rs).  A compiler is
   [code, locals, scope_depth, aborted]: its own chunk, the manager it shares
   with the compilers nested in it, and whether compilation has panicked. *)

NewCompiler == [code |-> <<>>, locals |-> <<>>, scope_depth |-> 0, aborted |-> FALSE]

\* Chunk::add_instruction
add_instruction(c, ins) == [c EXCEPT !.code = Append(@, ins)]

\* VariableManager::start_scope
start_scope(c) == [c EXCEPT !.scope_depth = @ + 1]

\* the loop of end_scope: one Pop per trailing local deeper than the scope left
RECURSIVE PopLocals(_)
PopLocals(c) ==
    IF c.locals # <<>> /\ c.locals[Len(c.locals)].depth > c.scope_depth
    THEN PopLocals([c EXCEPT !.code = Append(@, IPop),
                             !.locals = SubSeq(@, 1, Len(@) - 1)])
    ELSE c

\* VariableManager::end_scope(chunk)
end_scope(c) == PopLocals([c EXCEPT !.scope_depth = @ - 1])

\* VariableManager::add_variable(chunk, name)
add_variable(c, name) ==
    IF c.scope_depth > 0
    THEN [c EXCEPT !.locals = Append(@, [name |-> name, depth |-> c.scope_depth])]
    ELSE add_instruction(c, IDefineGlobal(name))

RECURSIVE add_variables(_, _)
add_variables(c, names) ==
    IF names = <<>> THEN c ELSE add_variables(add_variable(c, Head(names)), Tail(names))

\* variant: the slot is the position in the list of locals, counted from 0
RECURSIVE resolve_local_from_zero(_, _)
resolve_local_from_zero(locals, name) ==
    IF locals = <<>> THEN -1
    ELSE IF locals[Len(locals)].name = name THEN Len(locals) - 1
    ELSE resolve_local_from_zero(SubSeq(locals, 1, Len(locals) - 1), name)

\* variant: the oldest local of that name
RECURSIVE resolve_local_oldest(_, _)
resolve_local_oldest(locals, name) ==
    IF locals = <<>> THEN -1
    ELSE IF resolve_local_oldest(SubSeq(locals, 1, Len(locals) - 1), name) # -1
    THEN resolve_local_oldest(SubSeq(locals, 1, Len(locals) - 1), name)
    ELSE IF locals[Len(locals)].name = name THEN (Len(locals) - 1) + 1
    ELSE -1

\* VariableManager::resolve_local: the newest local of that name, as index + 1;
\* -1 stands for None
RECURSIVE resolve_local(_, _)
resolve_local(locals, name) ==
    IF locals = <<>> THEN -1
    ELSE IF locals[Len(locals)].name = name THEN (Len(locals) - 1) + 1
    ELSE resolve_local(SubSeq(locals, 1, Len(locals) - 1), name)

\* VariableManager::named_variable(name, is_set, chunk)
named_variable(c, name, is_set) ==
    LET stack_idx == resolve_local(c.locals, name)
    IN  IF stack_idx # -1
        THEN add_instruction(c, IF is_set THEN ISetLocal(stack_idx) ELSE IGetLocal(stack_idx))
        ELSE add_instruction(c, IF is_set THEN ISetGlobal(name) ELSE IGetGlobal(name))

\* str::parse::<f64> of a decimal literal
DigitValue(ch) == CHOOSE v \in 0 .. 9 : Digit(v) = ch
RECURSIVE ParseDigits(_, _)
ParseDigits(digits, acc) ==
    IF digits = <<>> THEN acc
    ELSE ParseDigits(Tail(digits), acc * 10 + DigitValue(Head(digits)))
ParseF64(digits) == Number(ParseDigits(digits, 0))

\* Chunk::emit_jump: append the placeholder; its index is the code length before
emit_jump(c, ins) == add_instruction(c, ins)

U16 == 65536         \* JumpIfFalse(u16), Jump(u16)
U8 == 256            \* Call(u8), Function.arity: u8

\* variant: the patched jump reaches two instructions further
patch_jump_further(c, offset) ==
    [c EXCEPT !.code[offset + 1] = IJumpIfFalse((Len(c.code) - offset + 2) % U16)]

\* Compiler::patch_jump(offset): the instruction at offset is overwritten by
\* JumpIfFalse(code.len() - offset), whatever it was
patch_jump(c, offset) ==
    [c EXCEPT !.code[offset + 1] = IJumpIfFalse((Len(c.code) - offset) % U16)]

BinaryInstruction(op) ==
    CASE op = "Add" -> IAdd
      [] op = "Sub" -> ISubtract
      [] op = "Mul" -> IMultiply
      [] op = "Div" -> IDivide
      [] op = "Equal" -> IEqual
      [] op = "NotEqual" -> INotEqual
      [] op = "Greater" -> IGreater
      [] op = "GreaterEq" -> IGreaterEq
      [] op = "Less" -> ILesser
      [] op = "LessEq" -> ILesserEq

Abort_(c) == [c EXCEPT !.aborted = TRUE]

RECURSIVE compile_node(_, _), compile_nodes(_, _), compile(_, _)

compile_nodes(c, nodes) ==
    IF nodes = <<>> THEN c ELSE compile_nodes(compile_node(c, Head(nodes)), Tail(nodes))

\* Compiler::compile_node
compile_node(c, node) ==
    IF c.aborted THEN c
    ELSE CASE node.k = "Number" -> add_instruction(c, IConstant(ParseF64(node.digits)))
           [] node.k = "StringLiteral" -> add_instruction(c, IConstant(String(node.s)))
           [] node.k = "BoolLiteral" -> add_instruction(c, IConstant(Bool(node.b)))
           [] node.k = "Function" ->
                LET scoped == add_variables(start_scope(c), node.args)
                    sub == compile([NewCompiler EXCEPT !.locals = scoped.locals,
                                                       !.scope_depth = scoped.scope_depth],
                                   <<node.body>>)
                    after == end_scope([scoped EXCEPT !.locals = sub.locals,
                                                      !.scope_depth = sub.scope_depth,
                                                      !.aborted = sub.aborted])
                    pushed == add_instruction(after,
                                 IConstant(Function(Len(node.args) % U8, sub.code, node.name)))
                IN  IF sub.aborted THEN Abort_(c) ELSE add_variable(pushed, node.name)
           [] node.k = "Block" -> 
                LET body == compile_nodes(start_scope(c), node.statements)
                IN  IF body.aborted THEN body ELSE end_scope(body)
           [] node.k = "Binary" ->
                LET operands == compile_node(compile_node(c, node.lhs), node.rhs)
                IN  IF operands.aborted THEN operands
                    ELSE add_instruction(operands, BinaryInstruction(node.op))
           [] node.k = "ExprStmt" ->
                LET e == compile_node(c, node.expr)
                IN  IF e.aborted THEN e ELSE add_instruction(e, IPop)
           [] node.k = "Call" ->
                LET e == compile_nodes(compile_node(c, node.callee), node.args)
                IN  IF e.aborted THEN e
                    ELSE add_instruction(e, ICall(Len(node.args) % U8))
           [] node.k = "Ret" ->
                LET e == IF node.value # <<>> THEN compile_node(c, node.value[1])
                         ELSE add_instruction(c, IConstant(None))
                IN  IF e.aborted THEN e ELSE add_instruction(e, IReturn)
           [] node.k = "VarGet" -> named_variable(c, node.name, FALSE)
           [] node.k = "VarDecl" ->
                LET e == compile_node(c, node.value)
                IN  IF e.aborted THEN e ELSE add_variable(e, node.name)
           [] node.k = "Grouping" -> compile_node(c, node.expr)
           [] node.k = "Unary" ->
                LET e == compile_node(c, node.expr)
                IN  IF e.aborted THEN e
                    ELSE add_instruction(e, IF node.op = "Not" THEN INot
                                            ELSE [op |-> "Negate"])
           [] node.k = "If" ->
                LET cond == compile_node(c, node.condition)
                    then_jump == Len(cond.code)
                    then_done == compile_node(
                                    add_instruction(emit_jump(cond, IJumpIfFalse(0)), IPop),
                                    node.then_block)
                    else_jump == Len(then_done.code)
                    else_start == add_instruction(
                                    patch_jump(emit_jump(then_done, IJump(0)), then_jump),
                                    IPop)
                    else_done == compile_nodes(else_start, node.else_block)
                IN  IF cond.aborted THEN cond
                    ELSE IF then_done.aborted THEN then_done
                    ELSE IF else_done.aborted THEN else_done
                    ELSE patch_jump(else_done, else_jump)
           [] OTHER -> Abort_(c)

\* Compiler::compile: the declarations, then Constant(None), Return unless the
\* chunk already ends with Return
compile(c, declarations) ==
    LET done == compile_nodes(c, declarations)
    IN  IF done.aborted THEN done
        ELSE IF done.code # <<>> /\ done.code[Len(done.code)] = IReturn THEN done
        ELSE add_instruction(add_instruction(done, IConstant(None)), IReturn)

\* Compiler::compile_non_boxed
compile_non_boxed(c, declarations) == compile_nodes(c, declarations)

\* the host's pipeline: compile, append the call of main, build the script
HostScript(declarations) ==
    Script(compile_non_boxed(NewCompiler, declarations).code
           \o <<IGetGlobal("main"), ICall(0), IReturn>>)

-----------------------------------------------------------------------------
(* Parser (parser.rs).  The tokenizer is the stream of its results: tokens
   [k, at] (at: the position the token reports) and items of kind "Error",
   the Err results of Tokenizer::next.  A parser p is [current, rest]: the
   token under the cursor and the results not yet drawn.  An error text is
   the sequence of its lines, each [msg, at]; joining texts with a newline is
   concatenation.  Every rule yields [ok |-> TRUE, v, p] or
   [ok |-> FALSE, e, p]. *)

Tok(kind) == [k |-> kind, at |-> 0]
TokNumber(digits) == [k |-> "NumberLiteral", at |-> 0, v |-> digits]
TokStr(chars) == [k |-> "StrLiteral", at |-> 0, v |-> chars]
TokIden(name) == [k |-> "IdenLiteral", at |-> 0, v |-> name]
Eof == [k |-> "Eof", at |-> 0]

POk(v, p) == [ok |-> TRUE, v |-> v, p |-> p]
PErr(e, p) == [ok |-> FALSE, e |-> e, p |-> p]

\* Parser::error(message, token): the message at the token's location
ParserError(message, token) == <<[msg |-> message, at |-> token.at]>>

\* the Err a tokenizer result of kind "Error" carries
LexError(item) == <<[msg |-> "unrecognized character", at |-> item.at]>>

\* Parser::advance: draw the next result; None is Eof, an Err leaves current
advance(p) ==
    IF p.rest = <<>> THEN POk(TRUE, [p EXCEPT !.current = Eof])
    ELSE IF Head(p.rest).k = "Error"
    THEN PErr(LexError(Head(p.rest)), [p EXCEPT !.rest = Tail(@)])
    ELSE POk(TRUE, [current |-> Head(p.rest), rest |-> Tail(p.rest)])

\* Parser::is_at_end
is_at_end(p) == p.current.k = "Eof"

\* macro matches!: on a token of one of the kinds advance and answer true
Matches(p, kinds) ==
    IF p.current.k \in kinds THEN advance(p) ELSE POk(FALSE, p)

\* macro consume!: matches! or the error at the current token
Consume(p, message, kinds) ==
    LET m == Matches(p, kinds)
    IN  IF m.ok /\ ~m.v THEN PErr(ParserError(message, p.current), p) ELSE m

\* variant: the operators of term and factor exchanged
RuleKindsFactorFirst(level) ==
    CASE level = 1 -> {"Or"}
      [] level = 2 -> {"And"}
      [] level = 3 -> {"NotEqual", "EqualEqual"}
      [] level = 4 -> {"Greater", "GreaterEq", "Less", "LessEq"}
      [] level = 5 -> {"Slash", "Star"}
      [] level = 6 -> {"Plus", "Minus"}

\* the operator tokens of the six binary rules, lowest precedence first:
\* or, and, equality, comparison, term, factor
RuleKinds(level) ==
    CASE level = 1 -> {"Or"}
      [] level = 2 -> {"And"}
      [] level = 3 -> {"NotEqual", "EqualEqual"}
      [] level = 4 -> {"Greater", "GreaterEq", "Less", "LessEq"}
      [] level = 5 -> {"Plus", "Minus"}
      [] level = 6 -> {"Slash", "Star"}

RuleOp(kind) ==
    CASE kind = "Or" -> "Or"
      [] kind = "And" -> "And"
      [] kind = "NotEqual" -> "NotEqual"
      [] kind = "EqualEqual" -> "Equal"
      [] kind = "Greater" -> "Greater"
      [] kind = "GreaterEq" -> "GreaterEq"
      [] kind = "Less" -> "Less"
      [] kind = "LessEq" -> "LessEq"
      [] kind = "Plus" -> "Add"
      [] kind = "Minus" -> "Sub"
      [] kind = "Slash" -> "Div"
      [] kind = "Star" -> "Mul"

RuleNode(level, left, op, right) ==
    IF level <= 2 THEN NLogical(left, op, right) ELSE NBinary(left, op, right)

RECURSIVE Rule(_, _)

\* the rules of the grammar by their names in parser.rs; the body of each
\* is the arm of Rule under its name
assignment(p) == Rule("assignment", <<p>>)
BinaryRule(level, p) == Rule("BinaryRule", <<level, p>>)
BinaryLoop(level, left, p) == Rule("BinaryLoop", <<level, left, p>>)
unary(p) == Rule("unary", <<p>>)
call(p) == Rule("call", <<p>>)
CallLoop(callee) == Rule("CallLoop", <<callee>>)
ArgumentLoop(p, arguments) == Rule("ArgumentLoop", <<p, arguments>>)
finish_call(p, callee) == Rule("finish_call", <<p, callee>>)
primary(p) == Rule("primary", <<p>>)
expr_stmt(p) == Rule("expr_stmt", <<p>>)
var_decl(p) == Rule("var_decl", <<p>>)
func_decl(p) == Rule("func_decl", <<p>>)
if_stmt(p) == Rule("if_stmt", <<p>>)
ret_stmt(p) == Rule("ret_stmt", <<p>>)
for_stmt(p) == Rule("for_stmt", <<p>>)
statement(p) == Rule("statement", <<p>>)
declaration(p) == Rule("declaration", <<p>>)
BlockLoop(p, statements, errors) == Rule("BlockLoop", <<p, statements, errors>>)
block(p) == Rule("block", <<p>>)

\* Parser::expr
expr(p) == assignment(p)

or(p) == BinaryRule(1, p)
and(p) == BinaryRule(2, p)
equality(p) == BinaryRule(3, p)
comparison(p) == BinaryRule(4, p)
term(p) == BinaryRule(5, p)
factor(p) == BinaryRule(6, p)

\* get_tok_loc(token): Eof reports no location
get_tok_loc(token) ==
    IF token.k = "Eof" THEN PErr(<<[msg |-> "no location", at |-> 0]>>, token)
    ELSE POk(token.at, token)

RECURSIVE FunctionArgs(_, _), SynchronizeLoop(_, _)

\* Parser::synchronize: pass one token, then stop after a delimiter or before
\* func, for, if, ret, end, else; an Err of the tokenizer ends it at once
SynchronizeLoop(previous, p) ==
    LET a == advance(p)
    IN  IF is_at_end(p) THEN POk(TRUE, p)
        ELSE IF previous.k = "ExprDelimiter" THEN POk(TRUE, p)
        ELSE IF p.current.k \in {"Func", "For", "If", "Ret", "End", "Else"} THEN POk(TRUE, p)
        ELSE IF ~a.ok THEN a
        ELSE SynchronizeLoop(p.current, a.p)

synchronize(p) ==
    LET a == advance(p)
    IN  IF ~a.ok THEN a ELSE SynchronizeLoop(p.current, a.p)

\* the parameter loop of func_decl: a name, then a comma or the end
FunctionArgs(p, args) ==
    LET a == advance(p)
        m == Matches(a.p, {"Comma"})
    IN  IF p.current.k # "IdenLiteral"
        THEN PErr(ParserError("expected an identifier", p.current), p)
        ELSE IF ~a.ok THEN a
        ELSE IF ~m.ok THEN m
        ELSE IF m.v THEN FunctionArgs(m.p, Append(args, p.current.v))
        ELSE POk(Append(args, p.current.v), m.p)

Rule(rule, given) ==
      \* Parser::assignment
    CASE rule = "assignment" ->
           (LET p == given[1]
            IN
            LET target == BinaryRule(1, p)
                m == Matches(target.p, {"Equal"})
                value == assignment(m.p)
            IN  IF ~target.ok THEN target
                ELSE IF ~m.ok THEN m
                ELSE IF ~m.v THEN target
                ELSE IF ~value.ok THEN value
                ELSE IF target.v.k = "VarGet" THEN POk(NAssign(target.v.name, value.v), value.p)
                ELSE PErr(<<[msg |-> "Invalid target for assignment", at |-> 0]>>, value.p))
      \* the operand of a binary rule: the next rule up, unary above factor
      [] rule = "BinaryRule" ->
           (LET level == given[1]
                p == given[2]
            IN
            LET first == IF level = 6 THEN unary(p) ELSE BinaryRule(level + 1, p)
            IN  IF ~first.ok THEN first ELSE BinaryLoop(level, first.v, first.p))
      \* the loop of or, and, equality, comparison, term and factor: while an
      \* operator of the rule follows, parse the right operand and nest to the left
      [] rule = "BinaryLoop" ->
           (LET level == given[1]
                left == given[2]
                p == given[3]
            IN
            LET m == Matches(p, RuleKinds(level))
                right == IF level = 6 THEN unary(m.p) ELSE BinaryRule(level + 1, m.p)
            IN  IF ~m.ok THEN m
                ELSE IF ~m.v THEN POk(left, p)
                ELSE IF ~right.ok THEN right
                ELSE BinaryLoop(level, RuleNode(level, left, RuleOp(p.current.k), right.v), right.p))
      \* Parser::unary
      [] rule = "unary" ->
           (LET p == given[1]
            IN
            LET m == Matches(p, {"Bang", "Minus"})
                loc == get_tok_loc(m.p.current)
                operand == unary(m.p)
            IN  IF ~m.ok THEN m
                ELSE IF ~m.v THEN call(p)
                ELSE IF ~loc.ok THEN PErr(loc.e, m.p)
                ELSE IF ~operand.ok THEN operand
                ELSE POk(NUnary(IF p.current.k = "Bang" THEN "Not" ELSE "Negate", operand.v),
                         operand.p))
      \* Parser::call
      [] rule = "call" ->
           (LET p == given[1]
            IN
            LET callee == primary(p)
            IN  IF ~callee.ok THEN callee ELSE CallLoop(callee))
      [] rule = "CallLoop" ->
           (LET callee == given[1]
            IN
            LET m == Matches(callee.p, {"LeftParen"})
                called == finish_call(m.p, callee.v)
            IN  IF ~m.ok THEN m
                ELSE IF ~m.v THEN callee
                ELSE IF ~called.ok THEN called
                ELSE CallLoop(called))
      \* the argument loop of finish_call: an expression, then a comma or the end
      [] rule = "ArgumentLoop" ->
           (LET p == given[1]
                arguments == given[2]
            IN
            LET argument == expr(p)
                m == Matches(argument.p, {"Comma"})
            IN  IF ~argument.ok THEN argument
                ELSE IF ~m.ok THEN m
                ELSE IF m.v THEN ArgumentLoop(m.p, Append(arguments, argument.v))
                ELSE POk(Append(arguments, argument.v), m.p))
      \* Parser::finish_call: a ')' at once is matched and passed; then, with or
      \* without arguments, advance() is called once more
      [] rule = "finish_call" ->
           (LET p == given[1]
                callee == given[2]
            IN
            LET m == Matches(p, {"RightParen"})
                arguments == IF m.v THEN POk(<<>>, m.p) ELSE ArgumentLoop(p, <<>>)
                a == advance(arguments.p)
            IN  IF ~m.ok THEN m
                ELSE IF ~arguments.ok THEN arguments
                ELSE IF ~a.ok THEN a
                ELSE POk(NCall(callee, arguments.v), a.p))
      \* Parser::primary
      [] rule = "primary" ->
           (LET p == given[1]
            IN
            LET t == p.current
                a == advance(p)
                inner == expr(a.p)
                closed == Consume(inner.p, "Expected a ')'", {"RightParen"})
                leaf(node) == IF a.ok THEN POk(node, a.p) ELSE a
            IN  CASE t.k = "True" -> leaf(NBoolLiteral(TRUE))
                  [] t.k = "False" -> leaf(NBoolLiteral(FALSE))
                  [] t.k = "NumberLiteral" -> leaf(NNumber(t.v))
                  [] t.k = "StrLiteral" -> leaf(NStringLiteral(t.v))
                  [] t.k = "IdenLiteral" -> leaf(NVarGet(t.v))
                  [] t.k = "LeftParen" ->
                        IF ~a.ok THEN a
                        ELSE IF ~inner.ok THEN inner
                        ELSE IF ~closed.ok THEN closed
                        ELSE POk(NGrouping(inner.v), closed.p)
                  [] OTHER -> PErr(ParserError("unexpected token", t), p))
      \* Parser::expr_stmt
      [] rule = "expr_stmt" ->
           (LET p == given[1]
            IN
            LET e == expr(p)
                d == Consume(e.p, "Expected a ';' or a new line.", {"ExprDelimiter"})
            IN  IF ~e.ok THEN e
                ELSE IF ~d.ok THEN d
                ELSE POk(NExprStmt(e.v), d.p))
      \* Parser::var_decl
      [] rule = "var_decl" ->
           (LET p == given[1]
            IN
            LET a == advance(p)
                eq == Consume(a.p, "expected '='", {"Equal"})
                value == expr(eq.p)
            IN  IF p.current.k # "IdenLiteral"
                THEN PErr(ParserError("expected an identifier", p.current), p)
                ELSE IF ~a.ok THEN a
                ELSE IF ~eq.ok THEN eq
                ELSE IF ~value.ok THEN value
                ELSE POk(NVarDecl(p.current.v, value.v), value.p))
      \* Parser::func_decl
      [] rule = "func_decl" ->
           (LET p == given[1]
            IN
            LET a == advance(p)
                open == advance(a.p)
                listed == FunctionArgs(open.p, <<>>)
                closed == Consume(listed.p, "expected a ')'", {"RightParen"})
                args == IF a.p.current.k # "LeftParen" THEN POk(<<>>, a.p)
                        ELSE IF ~open.ok THEN open
                        ELSE IF ~listed.ok THEN listed
                        ELSE IF ~closed.ok THEN closed
                        ELSE POk(listed.v, closed.p)
                colon == Consume(args.p, "expected a ':'", {"Colon"})
                body == block(colon.p)
            IN  IF p.current.k # "IdenLiteral"
                THEN PErr(ParserError("expected an identifier", p.current), p)
                ELSE IF ~a.ok THEN a
                ELSE IF ~args.ok THEN args
                ELSE IF ~colon.ok THEN colon
                ELSE IF ~body.ok THEN body
                ELSE POk(NFunction(p.current.v, args.v, NBlock(body.v)), body.p))
      \* Parser::if_stmt
      [] rule = "if_stmt" ->
           (LET p == given[1]
            IN
            LET cond == expr(p)
                colon == Consume(cond.p, "expected a ':'", {"Colon"})
                then_branch == block(colon.p)
                m == Matches(then_branch.p, {"Else"})
                else_colon == Consume(m.p, "expected a ':'", {"Colon"})
                else_branch == block(else_colon.p)
            IN  IF ~cond.ok THEN cond
                ELSE IF ~colon.ok THEN colon
                ELSE IF ~then_branch.ok THEN then_branch
                ELSE IF ~m.ok THEN m
                ELSE IF ~m.v THEN POk(NIf(cond.v, NBlock(then_branch.v), <<>>), then_branch.p)
                ELSE IF ~else_colon.ok THEN else_colon
                ELSE IF ~else_branch.ok THEN else_branch
                ELSE POk(NIf(cond.v, NBlock(then_branch.v), <<NBlock(else_branch.v)>>),
                         else_branch.p))
      \* Parser::ret_stmt
      [] rule = "ret_stmt" ->
           (LET p == given[1]
            IN
            LET value == IF p.current.k = "ExprDelimiter" THEN POk(<<>>, p)
                         ELSE LET e == expr(p) IN IF e.ok THEN POk(<<e.v>>, e.p) ELSE e
                d == Consume(value.p, "expected a ';' or a new line", {"ExprDelimiter"})
            IN  IF ~value.ok THEN value
                ELSE IF ~d.ok THEN d
                ELSE POk(NRet(value.v), d.p))
      \* Parser::for_stmt
      [] rule = "for_stmt" ->
           (LET p == given[1]
            IN
            LET a == advance(p)
                in == Consume(a.p, "expected 'in'", {"In"})
                target == expr(in.p)
                colon == Consume(target.p, "expected a ':'", {"Colon"})
                body == block(colon.p)
            IN  IF p.current.k # "IdenLiteral"
                THEN PErr(ParserError("expected an identifier", p.current), p)
                ELSE IF ~a.ok THEN a
                ELSE IF ~in.ok THEN in
                ELSE IF ~target.ok THEN target
                ELSE IF ~colon.ok THEN colon
                ELSE IF ~body.ok THEN body
                ELSE POk(NFor(p.current.v, target.v, NBlock(body.v)), body.p))
      \* Parser::statement: the value is <<>> (None) or <<node>>
      [] rule = "statement" ->
           (LET p == given[1]
            IN
            LET some(r) == IF r.ok THEN POk(<<r.v>>, r.p) ELSE r
                m == Matches(p, {"ExprDelimiter", "Colon", "Ret", "For", "If"})
                k == p.current.k
                body == block(m.p)
            IN  IF ~m.ok THEN m
                ELSE IF ~m.v THEN some(expr_stmt(p))
                ELSE CASE k = "ExprDelimiter" -> POk(<<>>, m.p)
                       [] k = "Colon" -> IF body.ok THEN POk(<<NBlock(body.v)>>, body.p) ELSE body
                       [] k = "Ret" -> some(ret_stmt(m.p))
                       [] k = "For" -> some(for_stmt(m.p))
                       [] k = "If" -> some(if_stmt(m.p)))
      \* Parser::declaration
      [] rule = "declaration" ->
           (LET p == given[1]
            IN
            LET some(r) == IF r.ok THEN POk(<<r.v>>, r.p) ELSE r
                m == Matches(p, {"Func", "Var"})
            IN  IF ~m.ok THEN m
                ELSE IF ~m.v THEN statement(p)
                ELSE IF p.current.k = "Func" THEN some(func_decl(m.p))
                ELSE some(var_decl(m.p)))
      \* the loop of Parser::block: declarations up to `end` or the end of input;
      \* an Err of synchronize leaves the block at once
      [] rule = "BlockLoop" ->
           (LET p == given[1]
                statements == given[2]
                errors == given[3]
            IN
            LET d == declaration(p)
                s == synchronize(d.p)
            IN  IF p.current.k = "End" \/ is_at_end(p)
                THEN [ok |-> TRUE, v |-> statements, errors |-> errors, p |-> p]
                ELSE IF d.ok THEN BlockLoop(d.p, statements \o d.v, errors)
                ELSE IF ~s.ok THEN [ok |-> FALSE, e |-> s.e, errors |-> errors \o d.e, p |-> s.p]
                ELSE BlockLoop(s.p, statements, errors \o d.e))
      \* Parser::block
      [] rule = "block" ->
           (LET p == given[1]
            IN
            LET l == BlockLoop(p, <<>>, <<>>)
                end == Consume(l.p, "Expected an 'end'", {"End"})
            IN  IF ~l.ok THEN PErr(l.e, l.p)
                ELSE IF l.errors # <<>> THEN PErr(l.errors, l.p)
                ELSE IF ~end.ok THEN end
                ELSE POk(l.v, end.p))

\* Parser::parse: [ok, declarations, e]; the loop is that of block, up to the
\* end of input
RECURSIVE ParseLoop(_, _, _)
ParseLoop(p, declarations, errors) ==
    LET d == declaration(p)
        s == synchronize(d.p)
    IN  IF is_at_end(p)
        THEN [ok |-> errors = <<>>, declarations |-> declarations, e |-> errors]
        ELSE IF d.ok THEN ParseLoop(d.p, declarations \o d.v, errors)
        ELSE IF ~s.ok THEN [ok |-> FALSE, declarations |-> declarations, e |-> s.e]
        ELSE ParseLoop(s.p, declarations, errors \o d.e)

parse(p) == ParseLoop(p, <<>>, <<>>)

\* the results of a tokenizer over tokens: each reports its position
Tokenizer(tokens) == [i \in 1 .. Len(tokens) |-> [tokens[i] EXCEPT !.at = i]]

\* Parser::new(tokenizer): the first result is drawn (the stream is not empty)
NewParser(tokenizer) ==
    IF Head(tokenizer).k = "Error" THEN PErr(LexError(Head(tokenizer)), <<>>)
    ELSE POk(TRUE, [current |-> Head(tokenizer), rest |-> Tail(tokenizer)])

(* The parser as the host drives it: Parser::new, then parse() one turn of
   its loop at a time.  parser.phase is "none" (no parser in this run), "new"
   (before Parser::new), "parsing" (inside parse()), "done" (parse() has
   returned parser.result) or "failed" (Parser::new returned Err).
   parser.synced holds the call of synchronize() the last turn made, if any. *)

NoParser == [phase |-> "none"]

VMUntouched ==
    UNCHANGED <<stack, globals, frames, status, error, natlog, pending, input, last,
                written, other>>

\* what a call of synchronize() did: the parser it was called on, whether it
\* returned Ok, and the parser it left
Synced(before, s) == [before |-> before, ok |-> s.ok, after |-> s.p]

\* Parser::new(tokenizer, source)
ParserNew ==
    /\ parser.phase = "new"
    /\ LET made == NewParser(Tokenizer(input.tokens))
       IN  parser' = IF made.ok
                     THEN [phase |-> "parsing", p |-> made.p, declarations |-> <<>>,
                           errors |-> <<>>, pushed |-> <<>>, synced |-> <<>>]
                     ELSE [phase |-> "failed", result |-> made]
    /\ VMUntouched

\* variant: a failed declaration is recorded and the loop goes on from where
\* the declaration stopped, without synchronize()
ParseDeclarationOnly ==
    /\ parser.phase = "parsing"
    /\ ~is_at_end(parser.p)
    /\ LET d == declaration(parser.p)
       IN  parser' =
             IF d.ok
             THEN [parser EXCEPT !.p = d.p, !.declarations = @ \o d.v, !.synced = <<>>]
             ELSE [parser EXCEPT !.p = d.p, !.errors = @ \o d.e, !.pushed = @ \o d.e,
                                 !.synced = <<>>]
    /\ VMUntouched

\* one turn of the loop of parse(): declaration(), then push the node, or
\* push the error and synchronize(), whose Err parse() returns at once
ParseDeclaration ==
    /\ parser.phase = "parsing"
    /\ ~is_at_end(parser.p)
    /\ LET d == declaration(parser.p)
           s == synchronize(d.p)
       IN  parser' =
             IF d.ok
             THEN [parser EXCEPT !.p = d.p, !.declarations = @ \o d.v, !.synced = <<>>]
             ELSE IF s.ok
             THEN [parser EXCEPT !.p = s.p, !.errors = @ \o d.e, !.pushed = @ \o d.e,
                                 !.synced = <<Synced(d.p, s)>>]
             ELSE [phase |-> "done", p |-> s.p, declarations |-> parser.declarations,
                   errors |-> parser.errors \o d.e, pushed |-> parser.pushed \o d.e,
                   synced |-> <<Synced(d.p, s)>>,
                   result |-> [ok |-> FALSE, e |-> s.e]]
    /\ VMUntouched

\* the end of parse(): the joined errors, or Ok
ParseReturn ==
    /\ parser.phase = "parsing"
    /\ is_at_end(parser.p)
    /\ parser' = [phase |-> "done", p |-> parser.p, declarations |-> parser.declarations,
                  errors |-> parser.errors, pushed |-> parser.pushed, synced |-> <<>>,
                  result |-> IF parser.errors # <<>>
                             THEN [ok |-> FALSE, e |-> parser.errors]
                             ELSE [ok |-> TRUE, e |-> <<>>]]
    /\ VMUntouched

\* the host after parse() returned Ok: Compiler::default() and
\* compile_non_boxed(parser.declarations); a todo!() or unimplemented!() met
\* by compile_node unwinds the host's thread and no chunk is returned
Compile ==
    /\ parser.phase = "done"
    /\ parser.result.ok
    /\ LET c == compile_non_boxed(NewCompiler, parser.declarations)
       IN  /\ parser' = [phase |-> "compiled", declarations |-> parser.declarations,
                         chunk |-> IF c.aborted THEN <<>> ELSE c.code]
           /\ status' = IF c.aborted THEN "panic" ELSE "compiled"
    /\ UNCHANGED <<stack, globals, frames, error, natlog, pending, input, last, written,
                   other>>

-----------------------------------------------------------------------------
(* Scenarios: the scripts handed to VirtualMachine::new and the natives the
   host registers.  Hand-assembled chunks exercise single instructions. *)

Numbers == {Number(i) : i \in -1 .. MaxNum}

SomeFunction == Function(0, <<IConstant(None), IReturn>>, "f")

Operands ==
    Numbers \cup {Bool(TRUE), Bool(FALSE), None, String(<<>>), String(<<"x", "y">>),
                  Array(<<Number(1), String(<<"x">>)>>), SomeFunction,
                  BuiltInMethod("print", "print", 0)}

BinaryInstructions ==
    {IAdd, ISubtract, IMultiply, IDivide, IEqual, INotEqual,
     IGreater, IGreaterEq, ILesser, ILesserEq, IIndexInto}

\* a, b, op: the operands are pushed left first, the result is returned
BinaryInputs ==
    {[kind |-> "binary", a |-> a, b |-> b, ins |-> i, natives |-> <<>>,
      script |-> Script(<<IConstant(a), IConstant(b), i, IReturn>>)] :
        a \in Operands, b \in Operands, i \in BinaryInstructions}

RECURSIVE Pushes(_)
Pushes(values) ==
    IF values = <<>> THEN <<>> ELSE <<IConstant(Head(values))>> \o Pushes(Tail(values))

ArgValues == {Number(1), String(<<"x">>)}

RECURSIVE ArgLists(_)
ArgLists(n) ==
    IF n = 0 THEN {<<>>}
    ELSE ArgLists(n - 1) \cup {<<v>> \o l : v \in ArgValues, l \in {x \in ArgLists(n - 1) : Len(x) = n - 1}}

Belows == {<<>>, <<Bool(TRUE)>>}

\* bodies of a called script function: return slot k, or leave a local behind
CalleeBodies ==
    {<<IGetLocal(k), IReturn>> : k \in 0 .. MaxArgs}
    \cup {<<IConstant(Number(7)), IConstant(Number(8)), IReturn>>}

\* below.., callee, args.., Call(n), Return
CallInputs ==
    {[kind |-> "call", below |-> below, args |-> args, natives |-> <<>>,
      callee |-> Function(arity, body, "f"),
      script |-> Script(Pushes(below) \o <<IConstant(Function(arity, body, "f"))>>
                        \o Pushes(args) \o <<ICall(Len(args)), IReturn>>)] :
        below \in Belows, args \in ArgLists(MaxArgs), arity \in 0 .. MaxArgs,
        body \in CalleeBodies}

\* below.., a value that is neither Function nor BuiltInMethod, args.., Call(n)
NotCallableInputs ==
    {[kind |-> "notcallable", below |-> below, args |-> args, callee |-> v,
      natives |-> <<>>,
      script |-> Script(Pushes(below) \o <<IConstant(v)>> \o Pushes(args)
                        \o <<ICall(Len(args)), IReturn>>)] :
        below \in Belows, args \in ArgLists(MaxArgs),
        v \in {c \in Operands : c.t \notin {"Function", "BuiltInMethod"}}}

HostFunctions == {"print", "send", "get_args"}

NativeInputs ==
    {[kind |-> "native", below |-> below, args |-> args,
      callee |-> BuiltInMethod(f, f, arity),
      natives |-> <<BuiltInMethod(f, f, arity)>>,
      script |-> Script(Pushes(below) \o <<IGetGlobal(f)>>
                        \o Pushes(args) \o <<ICall(Len(args)), IReturn>>)] :
        below \in Belows, args \in ArgLists(MaxArgs), arity \in 0 .. MaxArgs,
        f \in HostFunctions}

\* c, jump by k, then three more instructions
JumpInputs ==
    {[kind |-> "jump", c |-> c, ins |-> j, natives |-> <<>>,
      script |-> Script(<<IConstant(c), j, IConstant(Number(1)),
                          IConstant(Number(2)), IReturn>>)] :
        c \in {Bool(TRUE), Bool(FALSE), None, Number(0), String(<<>>)},
        j \in {IJumpIfFalse(k) : k \in 0 .. MaxJump} \cup {IJump(k) : k \in 0 .. MaxJump}}

\* single instructions the compiler does not emit yet: Not, ArrayLiteral on
\* count values out of two, SetGlobal on a defined or a new name, SetLocal
StoreInputs ==
    {[kind |-> "store", natives |-> <<>>, script |-> Script(code)] :
        code \in {<<IConstant(c), INot, IReturn>> : c \in Operands}
                 \cup {<<INot, IReturn>>}
                 \cup {<<IConstant(Number(1)), IConstant(None), IArrayLiteral(k), IReturn>> :
                            k \in 0 .. MaxArgs + 1}
                 \cup {<<IConstant(Number(1)), IDefineGlobal("g"), IConstant(Number(2)),
                          ISetGlobal(name), IPop, IGetGlobal("g"), IReturn>> :
                            name \in {"g", "h"}}
                 \cup {<<ISetGlobal("g"), IReturn>>}
                 \cup {<<IConstant(Number(1)), IConstant(Number(2)), ISetLocal(k),
                          IGetLocal(0), IReturn>> : k \in 0 .. MaxArgs}
                 \cup {<<ISetLocal(0), IReturn>>}}

\* source text as the tokens of the tokenizer: literals and their values
LiteralToken(v) ==
    CASE v.t = "Number" -> TokNumber(NatChars(v.n))
      [] v.t = "String" -> TokStr(v.s)
      [] v.t = "Bool" -> Tok(IF v.b THEN "True" ELSE "False")

\* func main: end
EmptyMain == <<Tok("Func"), TokIden("main"), Tok("Colon"), Tok("End")>>

\* the declarations of a token stream that parses
Parsed(tokens) == parse(NewParser(Tokenizer(tokens)).p).declarations

\* var r = a + b + c; func main: end
ConcatOperands == {Number(1), Number(2), String(<<"x">>)}
ConcatInputs ==
    {[kind |-> "concat", a |-> a, b |-> b, c |-> c, natives |-> <<>>,
      script |-> HostScript(Parsed(
                    <<Tok("Var"), TokIden("r"), Tok("Equal"), LiteralToken(a), Tok("Plus"),
                      LiteralToken(b), Tok("Plus"), LiteralToken(c), Tok("ExprDelimiter")>>
                    \o EmptyMain))] :
        a \in ConcatOperands, b \in ConcatOperands, c \in ConcatOperands}

\* two natives registered under one name, then a script that reads a name,
\* writes two names and reads a name again
GlobalNames == {"print", "x"}
GlobalInputs ==
    {[kind |-> "globals",
      natives |-> <<BuiltInMethod("print", "print", 0), BuiltInMethod("print", "send", 1)>>,
      script |-> Script(<<IGetGlobal(n1), IPop, IConstant(Number(1)), IDefineGlobal(n2),
                          IConstant(Number(2)), w, IPop, IGetGlobal(n1), IReturn>>)] :
        n1 \in GlobalNames, n2 \in GlobalNames,
        w \in {IDefineGlobal(n) : n \in GlobalNames} \cup {ISetGlobal(n) : n \in GlobalNames}}

\* var a = 1; var b = 2; var r = c; func main: end
RedeclareInputs ==
    {[kind |-> "redeclare", natives |-> <<BuiltInMethod("print", "print", 0)>>,
      script |-> HostScript(Parsed(
                    <<Tok("Var"), TokIden(a), Tok("Equal"), TokNumber(<<"1">>),
                      Tok("ExprDelimiter"),
                      Tok("Var"), TokIden(b), Tok("Equal"), TokNumber(<<"2">>),
                      Tok("ExprDelimiter"),
                      Tok("Var"), TokIden("r"), Tok("Equal"), TokIden(c),
                      Tok("ExprDelimiter")>> \o EmptyMain))] :
        a \in GlobalNames, b \in GlobalNames, c \in GlobalNames}

\* var name = n;
Decl(name, n) ==
    <<Tok("Var"), TokIden(name), Tok("Equal"), TokNumber(NatChars(n)),
      Tok("ExprDelimiter")>>

\* source-level scenarios, as the parser hands them to the compiler
Lit(v) == NNumber(NatChars(v))
Literals == 0 .. MaxLit
Say(args) == NExprStmt(NCall(NVarGet("print"), args))
SayNative == <<BuiltInMethod("print", "print", 0)>>

\* func f[(p)]: ret 1; end
FuncDecl(params) == NFunction("f", params, NBlock(<<NRet(<<Lit(1)>>)>>))

\* what stands in a block, with the locals the block itself declares and the
\* Pops its code holds (one per local and one per expression statement)
BlockBodies ==
    {[statements |-> <<>>, locals |-> 0, pops |-> 0],
     [statements |-> <<NExprStmt(Lit(1))>>, locals |-> 0, pops |-> 1],
     [statements |-> <<NVarDecl("b", Lit(2)), NVarDecl("c", Lit(3))>>,
      locals |-> 2, pops |-> 2],
     [statements |-> <<NVarDecl("b", Lit(2)), NBlock(<<NVarDecl("c", Lit(3))>>)>>,
      locals |-> 1, pops |-> 2],
     [statements |-> <<NVarDecl("b", Lit(2)), FuncDecl(<<>>)>>, locals |-> 2, pops |-> 2],
     [statements |-> <<NVarDecl("b", Lit(2)), FuncDecl(<<"p">>)>>,
      locals |-> 2, pops |-> 2]}

\* func main: var a = 1; : body end var d = 4; print(a, d); end
BlockInputs ==
    {[kind |-> "block", body |-> body, natives |-> SayNative,
      script |-> HostScript(
                    <<NFunction("main", <<>>,
                        NBlock(<<NVarDecl("a", Lit(1)),
                                 NBlock(body.statements),
                                 NVarDecl("d", Lit(4)),
                                 Say(<<NVarGet("a"), NVarGet("d")>>)>>))>>)] :
        body \in BlockBodies}

\* func f: var x = p + q; ret x; end
ZeroArgDecl(p, q) ==
    NFunction("f", <<>>,
        NBlock(<<NVarDecl("x", NBinary(Lit(p), "Add", Lit(q))),
                 NRet(<<NVarGet("x")>>)>>))

\* func add(a, b): ret a + b; end
AddDecl ==
    NFunction("add", <<"a", "b">>,
        NBlock(<<NRet(<<NBinary(NVarGet("a"), "Add", NVarGet("b"))>>)>>))

\* func g(a, b): var u = a - b; var v = u + u; print(a, b, u, v); ret v - b; end
MixedDecl ==
    NFunction("g", <<"a", "b">>,
        NBlock(<<NVarDecl("u", NBinary(NVarGet("a"), "Sub", NVarGet("b"))),
                 NVarDecl("v", NBinary(NVarGet("u"), "Add", NVarGet("u"))),
                 Say(<<NVarGet("a"), NVarGet("b"), NVarGet("u"), NVarGet("v")>>),
                 NRet(<<NBinary(NVarGet("v"), "Sub", NVarGet("b"))>>)>>))

\* the call is made in main's body (after a local of main) or at top level
CallFromMain(decl, called) ==
    <<decl,
      NFunction("main", <<>>,
          NBlock(<<NVarDecl("m", NBoolLiteral(TRUE)), NRet(<<called>>)>>))>>
CallAtTop(decl, called) ==
    <<decl, NVarDecl("r", called), NFunction("main", <<>>, NBlock(<<>>))>>

Sites == {"main", "top"}
Site(site, decl, called) ==
    IF site = "main" THEN CallFromMain(decl, called) ELSE CallAtTop(decl, called)

FunctionInputs ==
    {[kind |-> "function", callee |-> "f", site |-> site, x |-> p, y |-> q,
      natives |-> SayNative,
      script |-> HostScript(Site(site, ZeroArgDecl(p, q), NCall(NVarGet("f"), <<>>)))] :
        p \in Literals, q \in Literals, site \in Sites}
    \cup
    {[kind |-> "function", callee |-> c, site |-> site, x |-> p, y |-> q,
      natives |-> SayNative,
      script |-> HostScript(Site(site, IF c = "add" THEN AddDecl ELSE MixedDecl,
                                 NCall(NVarGet(c), <<Lit(p), Lit(q)>>)))] :
        p \in Literals, q \in Literals, site \in Sites, c \in {"add", "g"}}

\* the locals of main that are live where the nested function is declared
EnclosingNames == <<"m", "n">>
EnclosingValue(i) == 6 + i
EnclosingDecls(n) == [i \in 1 .. n |-> NVarDecl(EnclosingNames[i], Lit(EnclosingValue(i)))]
EnclosingReads(n) == [i \in 1 .. n |-> NVarGet(EnclosingNames[i])]

\* func main: var m = 7; var n = 8; func g(a): ret a; end print(g(p), m, n); end
\* with the first `enclosing` of the locals
NestedInputs ==
    {[kind |-> "nested", enclosing |-> n, x |-> p, natives |-> SayNative,
      script |-> HostScript(
                    <<NFunction("main", <<>>,
                        NBlock(EnclosingDecls(n)
                               \o <<NFunction("g", <<"a">>,
                                        NBlock(<<NRet(<<NVarGet("a")>>)>>)),
                                    Say(<<NCall(NVarGet("g"), <<Lit(p)>>)>>
                                        \o EnclosingReads(n))>>))>>)] :
        n \in 0 .. Len(EnclosingNames), p \in Literals}

Conditions ==
    {NBoolLiteral(TRUE), NBoolLiteral(FALSE), Lit(0),
     NBinary(Lit(1), "Equal", Lit(1)), NBinary(Lit(1), "Equal", Lit(2))}

\* var x = 5; if cond: print(1); end [else: print(2); end] var y = 9; print(x, y);
IfStatements(cond, with_else) ==
    <<NVarDecl("x", Lit(5)),
      NIf(cond, NBlock(<<Say(<<Lit(1)>>)>>),
          IF with_else THEN <<NBlock(<<Say(<<Lit(2)>>)>>)>> ELSE <<>>),
      NVarDecl("y", Lit(9)),
      Say(<<NVarGet("x"), NVarGet("y")>>)>>

\* the if statement stands in main's body or at top level
IfInputs ==
    {[kind |-> "if", condition |-> cond, with_else |-> with_else, site |-> site,
      natives |-> SayNative,
      script |-> HostScript(
                    IF site = "main"
                    THEN <<NFunction("main", <<>>, NBlock(IfStatements(cond, with_else)))>>
                    ELSE IfStatements(cond, with_else)
                         \o <<NFunction("main", <<>>, NBlock(<<>>))>>)] :
        cond \in Conditions, with_else \in BOOLEAN, site \in Sites}

\* if cond: [if cond: ] print(1); end [end] [else: print(2); end]
LastIf(cond, with_else, twice) ==
    LET inner == NIf(cond, NBlock(<<Say(<<Lit(1)>>)>>), <<>>)
    IN  NIf(cond,
            NBlock(<<IF twice THEN inner ELSE Say(<<Lit(1)>>)>>),
            IF with_else THEN <<NBlock(<<Say(<<Lit(2)>>)>>)>> ELSE <<>>)

\* the if statement is the last one of main's body, or of the script
LastIfInputs ==
    {[kind |-> "lastif", condition |-> cond, with_else |-> with_else, twice |-> twice,
      site |-> site, natives |-> SayNative,
      script |-> HostScript(
                    IF site = "main"
                    THEN <<NFunction("main", <<>>,
                              NBlock(<<LastIf(cond, with_else, twice)>>))>>
                    ELSE <<NFunction("main", <<>>, NBlock(<<>>)),
                           LastIf(cond, with_else, twice)>>)] :
        cond \in Conditions, with_else \in BOOLEAN, twice \in BOOLEAN, site \in Sites}

Inputs ==
    BinaryInputs \cup CallInputs \cup NativeInputs \cup JumpInputs
    \cup StoreInputs \cup FunctionInputs \cup IfInputs \cup ConcatInputs
    \cup GlobalInputs \cup RedeclareInputs \cup NotCallableInputs \cup BlockInputs
    \cup NestedInputs \cup LastIfInputs

-----------------------------------------------------------------------------

\* VirtualMachine::new(script)
Init ==
    /\ input \in Inputs
    /\ frames = <<[function |-> input.script, ip |-> 0, slot_offset |-> 0]>>
    /\ stack = <<>>
    /\ globals = <<>>
    /\ status = "setup"
    /\ error = ""
    /\ natlog = <<>>
    /\ pending = input.natives
    /\ last = NoStep
    /\ written = <<>>
    /\ parser = NoParser
    /\ other = NoInstance

Next ==
    \/ DefineBuiltInFn
    \/ Interpret
    \/ Constant
    \/ Add
    \/ Subtract
    \/ Divide
    \/ Multiply
    \/ GetGlobal
    \/ GetLocal
    \/ Pop
    \/ Call
    \/ Equal
    \/ NotEqual
    \/ Greater
    \/ GreaterEq
    \/ Lesser
    \/ LesserEq
    \/ IndexInto
    \/ DefineGlobal
    \/ SetGlobal
    \/ SetLocal
    \/ Not
    \/ ArrayLiteral
    \/ JumpIfFalse
    \/ Jump
    \/ FetchOutOfBounds
    \/ Return

Spec == Init /\ [][Next]_vars

\* interpret() is one synchronous call: its loop goes on while it can
FairSpec == Spec /\ WF_vars(Next)

-----------------------------------------------------------------------------
(* Two commands at once: the host spawns one closure per command, each
   builds its own VirtualMachine, registers its natives and interprets; the
   pool interleaves the two closures' steps in any order. *)

\* one command's script: [x = v;] send(x); return x, x being a global
IsolationInputs ==
    {[kind |-> "isolated", defines |-> TRUE, v |-> v,
      natives |-> <<BuiltInMethod("send", "send", 0)>>,
      script |-> Script(<<IConstant(Number(v)), IDefineGlobal("x"), IGetGlobal("send"),
                          IGetGlobal("x"), ICall(1), IPop, IGetGlobal("x"), IReturn>>)] :
        v \in 1 .. MaxNum}
    \cup
    {[kind |-> "isolated", defines |-> FALSE, v |-> 0,
      natives |-> <<BuiltInMethod("send", "send", 0)>>,
      script |-> Script(<<IGetGlobal("send"), IGetGlobal("x"), ICall(1), IPop,
                          IGetGlobal("x"), IReturn>>)]}

\* the other command: any of the above, or a script out of the scenarios
\* of the single machine
OtherInputs ==
    IsolationInputs
    \cup {i \in BinaryInputs : i.a = Number(1) /\ i.b \in {Number(2), String(<<"x", "y">>)}}
    \cup {i \in CallInputs : i.below = <<>> /\ i.args = <<>> /\ i.callee.arity = 0}
    \cup {i \in NativeInputs : i.below = <<>> /\ i.args = <<>> /\ i.callee.arity = 0}
    \cup {i \in JumpInputs : i.c = Bool(FALSE)}
    \cup StoreInputs

ConcurrentInit ==
    /\ input \in IsolationInputs
    /\ frames = <<[function |-> input.script, ip |-> 0, slot_offset |-> 0]>>
    /\ stack = <<>>
    /\ globals = <<>>
    /\ status = "setup"
    /\ error = ""
    /\ natlog = <<>>
    /\ pending = input.natives
    /\ last = NoStep
    /\ written = <<>>
    /\ parser = NoParser
    /\ other \in {NewInstance(i) : i \in OtherInputs}

ConcurrentNext ==
    \/ Switch
    \/ Next

ConcurrentSpec == ConcurrentInit /\ [][ConcurrentNext]_vars

-----------------------------------------------------------------------------
(* The front end alone: the host hands a token stream to Parser::new, calls
   parse() and compiles the declarations of an Ok result.  A stream is up to MaxPieces pieces of source, each a
   declaration that parses (with the node it stands for), a declaration that
   does not, or a character the tokenizer rejects. *)

Piece(tokens, nodes) == [tokens |-> tokens, nodes |-> nodes]

Pieces ==
    {\* 1;
     Piece(<<TokNumber(<<"1">>), Tok("ExprDelimiter")>>,
           <<NExprStmt(NNumber(<<"1">>))>>),
     \* var x = 2;
     Piece(<<Tok("Var"), TokIden("x"), Tok("Equal"), TokNumber(<<"2">>),
             Tok("ExprDelimiter")>>,
           <<NVarDecl("x", NNumber(<<"2">>))>>),
     \* ;
     Piece(<<Tok("ExprDelimiter")>>, <<>>),
     \* func f: ret 1; end
     Piece(<<Tok("Func"), TokIden("f"), Tok("Colon"), Tok("Ret"), TokNumber(<<"1">>),
             Tok("ExprDelimiter"), Tok("End")>>,
           <<NFunction("f", <<>>, NBlock(<<NRet(<<NNumber(<<"1">>)>>)>>))>>),
     \* *;
     Piece(<<Tok("Star"), Tok("ExprDelimiter")>>, <<>>),
     \* * 1
     Piece(<<Tok("Star"), TokNumber(<<"1">>)>>, <<>>),
     \* for i in 1: 1; end
     Piece(<<Tok("For"), TokIden("i"), Tok("In"), TokNumber(<<"1">>), Tok("Colon"),
             TokNumber(<<"1">>), Tok("ExprDelimiter"), Tok("End")>>,
           <<NFor("i", NNumber(<<"1">>), NBlock(<<NExprStmt(NNumber(<<"1">>))>>))>>),
     \* a character that is no token
     Piece(<<[k |-> "Error", at |-> 0]>>, <<>>)}

RECURSIVE PieceLists(_)
PieceLists(n) ==
    IF n = 0 THEN {<<>>}
    ELSE PieceLists(n - 1)
         \cup {<<x>> \o l : x \in Pieces, l \in {y \in PieceLists(n - 1) : Len(y) = n - 1}}

RECURSIVE PieceTokens(_), PieceNodes(_)
PieceTokens(l) == IF l = <<>> THEN <<>> ELSE Head(l).tokens \o PieceTokens(Tail(l))
PieceNodes(l) == IF l = <<>> THEN <<>> ELSE Head(l).nodes \o PieceNodes(Tail(l))

ParserInputs ==
    {[kind |-> "parse", pieces |-> l, tokens |-> PieceTokens(l), natives |-> <<>>] :
        l \in PieceLists(MaxPieces) \ {<<>>}}

\* whole programs, each with what the properties need to know of its shape
Program(shape, tokens, about) ==
    [kind |-> "program", shape |-> shape, tokens |-> tokens, about |-> about,
     natives |-> <<>>]

\* 1; 2; ... n;
RECURSIVE Statements(_)
Statements(n) ==
    IF n = 0 THEN <<>>
    ELSE Statements(n - 1) \o <<TokNumber(NatChars(n)), Tok("ExprDelimiter")>>

\* conditions, with the number of instructions each compiles to
ConditionTokens ==
    {[tokens |-> <<Tok("True")>>, len |-> 1],
     [tokens |-> <<Tok("False")>>, len |-> 1],
     [tokens |-> <<TokNumber(<<"1">>), Tok("EqualEqual"), TokNumber(<<"2">>)>>, len |-> 3]}

\* [before;] if cond: 1; .. n; end [else: 1; .. m; end] [after;]
IfPrograms ==
    {Program("if",
             Statements(before) \o <<Tok("If")>> \o c.tokens \o <<Tok("Colon")>>
             \o Statements(n) \o <<Tok("End")>>
             \o (IF m >= 0 THEN <<Tok("Else"), Tok("Colon")>> \o Statements(m)
                                \o <<Tok("End")>>
                 ELSE <<>>)
             \o Statements(after),
             [start |-> 2 * before, cond |-> c.len, then |-> 2 * n,
              else |-> IF m >= 0 THEN 2 * m ELSE 0, after |-> 2 * after]) :
        c \in ConditionTokens, n \in 0 .. 2, m \in -1 .. 2,
        before \in 0 .. 1, after \in 0 .. 1}

\* (a, b, ..): the parameter list of n names, nothing for n = 0
ParameterNames == <<"a", "b", "c">>
RECURSIVE ParameterTokens(_)
ParameterTokens(n) ==
    IF n = 0 THEN <<>>
    ELSE IF n = 1 THEN <<Tok("LeftParen"), TokIden(ParameterNames[1])>>
    ELSE ParameterTokens(n - 1) \o <<Tok("Comma"), TokIden(ParameterNames[n])>>

\* function bodies: ret 1; / 1; / var x = 1; ret x; / nothing
BodyTokens ==
    {<<Tok("Ret"), TokNumber(<<"1">>), Tok("ExprDelimiter")>>,
     <<TokNumber(<<"1">>), Tok("ExprDelimiter")>>,
     <<Tok("Var"), TokIden("x"), Tok("Equal"), TokNumber(<<"1">>), Tok("ExprDelimiter"),
       Tok("Ret"), TokIden("x"), Tok("ExprDelimiter")>>,
     <<>>}

\* [:] [1;] func f(a, ..): body end [2;] [end]
FunctionPrograms ==
    {Program("function",
             (IF inblock THEN <<Tok("Colon")>> ELSE <<>>)
             \o Statements(before)
             \o <<Tok("Func"), TokIden("f")>> \o ParameterTokens(n)
             \o (IF n > 0 THEN <<Tok("RightParen")>> ELSE <<>>)
             \o <<Tok("Colon")>> \o body \o <<Tok("End")>>
             \o Statements(after)
             \o (IF inblock THEN <<Tok("End")>> ELSE <<>>),
             [start |-> 2 * before, arity |-> n, after |-> 2 * after,
              inblock |-> inblock]) :
        n \in 0 .. MaxArgs, before \in 0 .. 1, after \in 0 .. 1, inblock \in BOOLEAN,
        body \in BodyTokens}

\* var name = n;  and  name;
VarTokens(name, n) ==
    <<Tok("Var"), TokIden(name), Tok("Equal"), TokNumber(NatChars(n)),
      Tok("ExprDelimiter")>>
UseTokens(name) == <<TokIden(name), Tok("ExprDelimiter")>>

\* func main: var x = 1; [var y = 5;] x;
\*     : var x = 2; x; [: var x = 3; x; end] x; end
\*     x; z; end
ShadowPrograms ==
    {Program("shadow",
             <<Tok("Func"), TokIden("main"), Tok("Colon")>>
             \o VarTokens("x", 1) \o (IF with_y THEN VarTokens("y", 5) ELSE <<>>)
             \o UseTokens("x")
             \o <<Tok("Colon")>> \o VarTokens("x", 2) \o UseTokens("x")
             \o (IF deeper
                 THEN <<Tok("Colon")>> \o VarTokens("x", 3) \o UseTokens("x")
                      \o <<Tok("End")>>
                 ELSE <<>>)
             \o UseTokens("x") \o <<Tok("End")>>
             \o UseTokens("x") \o UseTokens("z") \o <<Tok("End")>>,
             [with_y |-> with_y, deeper |-> deeper]) :
        with_y \in BOOLEAN, deeper \in BOOLEAN}

\* the operator tokens of the grammar: those of the binary rules and the two
\* prefixes of unary
BinaryKinds == UNION {RuleKinds(level) : level \in 1 .. 6}
UnaryKinds == {"Bang", "Minus"}

\* `1 op 2;` for every binary operator and `op 1;` for every prefix
OperatorPrograms ==
    {Program("operator",
             <<TokNumber(<<"1">>), Tok(kind), TokNumber(<<"2">>), Tok("ExprDelimiter")>>,
             [kind |-> kind, unary |-> FALSE]) : kind \in BinaryKinds}
    \cup
    {Program("operator",
             <<Tok(kind), TokNumber(<<"1">>), Tok("ExprDelimiter")>>,
             [kind |-> kind, unary |-> TRUE]) : kind \in UnaryKinds}

\* x = 3 + 1;
AssignTokens ==
    <<TokIden("x"), Tok("Equal"), TokNumber(<<"3">>), Tok("Plus"), TokNumber(<<"1">>),
      Tok("ExprDelimiter")>>

\* `x = 3 + 1;` with x a global, and `: var x = 0; x = 3 + 1; end` with x a
\* live local
AssignPrograms ==
    {Program("assign", AssignTokens, [local |-> FALSE]),
     Program("assign",
             <<Tok("Colon")>> \o Decl("x", 0) \o AssignTokens \o <<Tok("End")>>,
             [local |-> TRUE])}

\* productions that fail at the end of input or at a keyword of recovery,
\* at top level: `1`, `var`, `var func f: ret 1; end`, `var end 1;`,
\* `1 else 2;`, `end`, `else 1;`, `: end end`; and in a block:
\* `func f: else 1; end`, `: var end`, `: 1 else`
RecoverPrograms ==
    {Program("recover", tokens, [at |-> tokens[Len(tokens)].k]) :
        tokens \in {<<TokNumber(<<"1">>)>>,
                    <<Tok("Var")>>,
                    <<Tok("Var"), Tok("Func"), TokIden("f"), Tok("Colon"), Tok("Ret"),
                      TokNumber(<<"1">>), Tok("ExprDelimiter"), Tok("End")>>,
                    <<Tok("Var"), Tok("End"), TokNumber(<<"1">>), Tok("ExprDelimiter")>>,
                    <<TokNumber(<<"1">>), Tok("Else"), TokNumber(<<"2">>),
                      Tok("ExprDelimiter")>>,
                    <<Tok("End")>>,
                    <<Tok("Else"), TokNumber(<<"1">>), Tok("ExprDelimiter")>>,
                    <<Tok("Colon"), Tok("End"), Tok("End")>>,
                    <<Tok("Func"), TokIden("f"), Tok("Colon"), Tok("Else"),
                      TokNumber(<<"1">>), Tok("ExprDelimiter"), Tok("End")>>,
                    <<Tok("Colon"), Tok("Var"), Tok("End")>>,
                    <<Tok("Colon"), TokNumber(<<"1">>), Tok("Else")>>}}

\* calls, each with the declarations the grammar gives it (none: a parse error)
CallPrograms ==
    {\* f(); 1;
     Program("call",
             <<TokIden("f"), Tok("LeftParen"), Tok("RightParen"), Tok("ExprDelimiter"),
               TokNumber(<<"1">>), Tok("ExprDelimiter")>>,
             [valid |-> TRUE,
              nodes |-> <<NExprStmt(NCall(NVarGet("f"), <<>>)),
                          NExprStmt(NNumber(<<"1">>))>>]),
     \* f(a, b);
     Program("call",
             <<TokIden("f"), Tok("LeftParen"), TokIden("a"), Tok("Comma"), TokIden("b"),
               Tok("RightParen"), Tok("ExprDelimiter")>>,
             [valid |-> TRUE,
              nodes |-> <<NExprStmt(NCall(NVarGet("f"), <<NVarGet("a"), NVarGet("b")>>))>>]),
     \* f(a)(b);
     Program("call",
             <<TokIden("f"), Tok("LeftParen"), TokIden("a"), Tok("RightParen"),
               Tok("LeftParen"), TokIden("b"), Tok("RightParen"), Tok("ExprDelimiter")>>,
             [valid |-> TRUE,
              nodes |-> <<NExprStmt(NCall(NCall(NVarGet("f"), <<NVarGet("a")>>),
                                          <<NVarGet("b")>>))>>]),
     \* f(a; ;
     Program("call",
             <<TokIden("f"), Tok("LeftParen"), TokIden("a"), Tok("ExprDelimiter"),
               Tok("ExprDelimiter")>>,
             [valid |-> FALSE, nodes |-> <<>>]),
     \* f(a b);
     Program("call",
             <<TokIden("f"), Tok("LeftParen"), TokIden("a"), TokIden("b"),
               Tok("RightParen"), Tok("ExprDelimiter")>>,
             [valid |-> FALSE, nodes |-> <<>>])}

\* expressions `a op b op c ..;` of up to MaxOperators operators, `=` among
\* them, one operand at most under a prefix: ops are the operators in source
\* order, pos the operand under the prefix (0: none)
LadderKinds == {"Equal", "Or", "And", "EqualEqual", "Less", "Plus", "Minus", "Star", "Slash"}
OperandNames == <<"a", "b", "c", "d", "e">>
ExpressionShapes ==
    {[ops |-> ops, pos |-> pos, prefix |-> prefix] :
        ops \in UNION {[1 .. n -> LadderKinds] : n \in 1 .. MaxOperators},
        pos \in 0 .. MaxOperators + 1, prefix \in UnaryKinds}

RECURSIVE ExpressionTokens(_, _)
ExpressionTokens(shape, i) ==
    (IF shape.pos = i THEN <<Tok(shape.prefix)>> ELSE <<>>)
    \o <<TokIden(OperandNames[i])>>
    \o (IF i > Len(shape.ops) THEN <<Tok("ExprDelimiter")>>
        ELSE <<Tok(shape.ops[i])>> \o ExpressionTokens(shape, i + 1))

ExpressionPrograms ==
    {Program("expression", ExpressionTokens(shape, 1), shape) :
        shape \in {e \in ExpressionShapes :
                      /\ e.pos <= Len(e.ops) + 1
                      /\ e.pos = 0 => e.prefix = "Bang"}}

\* `target = 2;` for a bare variable, a literal, a grouping, a binary
\* expression and calls with and without arguments
TargetPrograms ==
    {Program("target",
             target.tokens
             \o <<Tok("Equal"), TokNumber(<<"2">>), Tok("ExprDelimiter")>>,
             [target |-> target.is]) :
        target \in {[is |-> "variable", tokens |-> <<TokIden("a")>>],
                    [is |-> "literal", tokens |-> <<TokNumber(<<"1">>)>>],
                    [is |-> "grouping",
                     tokens |-> <<Tok("LeftParen"), TokIden("a"), Tok("RightParen")>>],
                    [is |-> "binary",
                     tokens |-> <<TokIden("a"), Tok("Plus"), TokIden("b")>>],
                    [is |-> "call",
                     tokens |-> <<TokIden("f"), Tok("LeftParen"), TokIden("a"),
                                  Tok("RightParen")>>],
                    [is |-> "call without arguments",
                     tokens |-> <<TokIden("f"), Tok("LeftParen"), Tok("RightParen")>>]}}

Programs ==
    IfPrograms \cup FunctionPrograms \cup ShadowPrograms \cup OperatorPrograms
    \cup AssignPrograms \cup RecoverPrograms \cup CallPrograms \cup ExpressionPrograms
    \cup TargetPrograms

ParserInit ==
    /\ input \in ParserInputs \cup Programs
    /\ parser = [phase |-> "new"]
    /\ frames = <<>>
    /\ stack = <<>>
    /\ globals = <<>>
    /\ status = "source"
    /\ error = ""
    /\ natlog = <<>>
    /\ pending = <<>>
    /\ last = NoStep
    /\ written = <<>>
    /\ other = NoInstance

ParserNext ==
    \/ ParserNew
    \/ ParseDeclaration
    \/ ParseReturn
    \/ Compile

ParserSpec == ParserInit /\ [][ParserNext]_vars

\* the condition of the loop of parse(): a turn is possible exactly then, and
\* every turn changes parser.p or ends the parse
ParseDeclarationEnabled == parser.phase = "parsing" /\ ~is_at_end(parser.p)

\* the host calls Parser::new and parse() in one thread: Parser::new returns,
\* the loop of parse() takes its next turn while its condition holds, and
\* parse() returns when it fails.  The weak fairness of ParseDeclaration is
\* written out with its enabling condition.
FairParserSpec ==
    /\ ParserSpec
    /\ WF_vars(ParserNew)
    /\ WF_vars(ParseReturn)
    /\ ([]<>~ParseDeclarationEnabled \/ []<><<ParseDeclaration>>_vars)

-----------------------------------------------------------------------------
(* Properties.  `last` holds the instruction the latest step executed and the
   state it started from, so a state predicate over `last` and the current
   state speaks about every step of every run. *)

Stepped(opname) == last.ins.op = opname
LastFrame == last.frames[Len(last.frames)]
LastRight == last.stack[Len(last.stack)]                \* operand b, on top
LastLeft == last.stack[Len(last.stack) - 1]             \* operand a, pushed first
LastRest == Front(last.stack, Len(last.stack) - 2)
SteppedBinary(opname) == Stepped(opname) /\ Len(last.stack) >= 2
LastCallee == last.stack[Len(last.stack) - last.ins.n]
SteppedCall(kind) ==
    Stepped("Call") /\ Len(last.stack) > last.ins.n /\ LastCallee.t = kind
LastArgs == [i \in 1 .. last.ins.n |-> last.stack[Len(last.stack) - last.ins.n + i]]
Pushed(v) == status = "running" /\ stack = LastRest \o <<v>>
Failed(kind) == status = "error" /\ error = kind

\* C1: a Call(n) on a script Function of arity a # n makes interpret() return
\* ArityMismatch at that Call, with no frame pushed and nothing of the callee
\* executed; when n = a the call proceeds.
C1_ArityMismatchIsFatal ==
    SteppedCall("Function") =>
        IF LastCallee.arity # last.ins.n
        THEN Failed("ArityMismatch") /\ frames = last.frames
        ELSE status = "running" /\ Len(frames) = Len(last.frames) + 1

\* C2: on Number operands a (left) and b (right), Greater pushes a > b,
\* GreaterEq a >= b, Lesser a < b and LesserEq a <= b.
C2_RelationalNamesake ==
    LET a == LastLeft
        b == LastRight
        numeric(opname) == SteppedBinary(opname) /\ IsNumber(a) /\ IsNumber(b)
    IN  /\ numeric("Greater") => Pushed(Bool(a.n * b.d > b.n * a.d))
        /\ numeric("GreaterEq") => Pushed(Bool(a.n * b.d >= b.n * a.d))
        /\ numeric("Lesser") => Pushed(Bool(a.n * b.d < b.n * a.d))
        /\ numeric("LesserEq") => Pushed(Bool(a.n * b.d <= b.n * a.d))

\* C3: on Number operands Add, Subtract and Multiply push a+b, a-b and a*b,
\* Divide pushes a/b when b # 0, and the only error on Number operands is
\* Divide by 0 (Multiply by 0 pushes the product).
C3_ArithmeticOnNumbers ==
    LET a == LastLeft
        b == LastRight
        numeric(opname) == SteppedBinary(opname) /\ IsNumber(a) /\ IsNumber(b)
    IN  /\ numeric("Add") => Pushed(Rat(a.n * b.d + b.n * a.d, a.d * b.d))
        /\ numeric("Subtract") => Pushed(Rat(a.n * b.d - b.n * a.d, a.d * b.d))
        /\ numeric("Multiply") => Pushed(Rat(a.n * b.n, a.d * b.d))
        /\ numeric("Divide") /\ b.n # 0 => Pushed(Rat(a.n * b.d, a.d * b.n))
        /\ numeric("Divide") /\ b.n = 0 => status = "error"

Output(args) == [name |-> "print", args |-> args]
IsPrefix(p, q) == Len(p) <= Len(q) /\ p = SubSeq(q, 1, Len(p))

\* what the condition of an if scenario evaluates to
ConditionHolds ==
    input.condition \in {NBoolLiteral(TRUE), Lit(0), NBinary(Lit(1), "Equal", Lit(1))}

\* the prints of `var x = 5; if c: print(1) [else: print(2)]; var y = 9; print(x, y)`
IfOutput ==
    (IF ConditionHolds THEN <<Output(<<Number(1)>>)>>
     ELSE IF input.with_else THEN <<Output(<<Number(2)>>)>> ELSE <<>>)
    \o <<Output(<<Number(5), Number(9)>>)>>

\* C4: a compiled if/else runs exactly one branch (then on a truthy condition,
\* else, if any, on a falsey one) and pops the condition once on either path,
\* so the stack is as high after the statement as before its condition: the
\* script prints the taken branch's mark and then x and y, a local declared
\* after the if being found in its slot, and ends normally with nothing left
\* on the stack.
C4_IfRunsOneBranch ==
    input.kind = "if" =>
        /\ status \notin {"error", "panic"}
        /\ IsPrefix(natlog, IfOutput)
        /\ status = "ok" => natlog = IfOutput /\ stack = <<>>

\* the value the called function of a function scenario returns
FunctionResult ==
    CASE input.callee = "f" -> Number(input.x + input.y)
      [] input.callee = "add" -> Number(input.x + input.y)
      [] input.callee = "g" -> Number(2 * (input.x - input.y) - input.y)

C6_CallPushesFrame ==
    SteppedCall("Function") /\ status = "running" =>
        /\ Len(frames) = Len(last.frames) + 1
        /\ Front(frames, Len(last.frames)) = last.frames
        /\ Cur.ip = 0
        /\ Cur.function = LastCallee
        /\ Cur.slot_offset = Len(last.stack) - last.ins.n - 1
        /\ stack = last.stack
        /\ stack[Cur.slot_offset + 1] = Cur.function

C6_ReturnResumesCaller ==
    Stepped("Return") /\ last.stack # <<>> /\ Len(last.frames) > 1 =>
        LET off == LastFrame.slot_offset
            caller == last.frames[Len(last.frames) - 1]
        IN  /\ status = "running"
            /\ Len(frames) = Len(last.frames) - 1
            /\ caller.function.chunk[caller.ip + 1].op = "Call"
            /\ Cur = [caller EXCEPT !.ip = caller.ip + 1]
            /\ Front(frames, Len(frames) - 1) = Front(last.frames, Len(frames) - 1)
            /\ Top(stack) = Top(last.stack)
            /\ Len(last.stack) > off =>
                    /\ Len(stack) = off + 1
                    /\ Front(stack, off) = Front(last.stack, off)

CallableAccepts(m, n) == m.arity = 0 \/ m.arity = n

\* C7: Call(n) on a native whose arity is 0 or n invokes the host callable
\* once with the n top values in push order, replaces callee and arguments
\* by the Constant it returned, moves ip on by one and pushes no frame.
C7_NativeCall ==
    SteppedCall("BuiltInMethod") /\ CallableAccepts(LastCallee, last.ins.n) =>
        /\ status = "running"
        /\ natlog = last.natlog \o <<[name |-> LastCallee.name, args |-> LastArgs]>>
        /\ stack = Front(last.stack, Len(last.stack) - last.ins.n - 1)
                   \o <<HostCall(LastCallee.func, LastArgs)>>
        /\ frames = [last.frames EXCEPT ![Len(last.frames)].ip = LastFrame.ip + 1]

\* a native was called with two different arguments and gave a String back
C7_Witness ==
    /\ SteppedCall("BuiltInMethod")
    /\ last.ins.n = 2
    /\ LastCallee.arity = 2
    /\ LastArgs[1] # LastArgs[2]
    /\ IsString(Top(stack))
    /\ Len(natlog) = 1

\* C8: Call(n) on a native of arity r, r # 0 and r # n, makes interpret()
\* return ArityMismatch, and the host callable is not invoked.
C8_NativeArityMismatchIsFatal ==
    SteppedCall("BuiltInMethod") /\ ~CallableAccepts(LastCallee, last.ins.n) =>
        Failed("ArityMismatch") /\ natlog = last.natlog

Relational == {"Greater", "GreaterEq", "Lesser", "LesserEq"}

\* C9: a relational instruction with an operand that is not a Number ends
\* interpret() with a returned InvalidOperand error: no result is pushed and
\* the thread does not panic.
C9_RelationalNonNumberIsError ==
    (\E opname \in Relational : SteppedBinary(opname))
    /\ (~IsNumber(LastLeft) \/ ~IsNumber(LastRight)) =>
        Failed("InvalidOperand") /\ stack = LastRest

\* C10: Divide with right operand Number(0) makes interpret() return
\* DivisionByZero whatever the left operand is, and pushes no result.
C10_DivideByZero ==
    SteppedBinary("Divide") /\ IsNumber(LastRight) /\ LastRight.n = 0 =>
        Failed("DivisionByZero") /\ stack = LastRest

\* Divide by zero with a left operand that is no Number
C10_Witness ==
    /\ SteppedBinary("Divide")
    /\ LastRight = Number(0)
    /\ ~IsNumber(LastLeft)
    /\ Failed("DivisionByZero")

\* the variants whose values PartialEq compares by payload
Comparable == {"Number", "Bool", "String", "None"}

\* C11: Equal pushes Bool(true) exactly when both operands are the same
\* variant among Number, Bool, String, None with equal payloads, and false for
\* every other pair, a Function, BuiltInMethod or Array compared with itself
\* included; NotEqual pushes the negation.
C11_EqualByVariant ==
    LET same == LastLeft.t \in Comparable /\ LastLeft.t = LastRight.t
                /\ LastLeft = LastRight
    IN  /\ SteppedBinary("Equal") => Pushed(Bool(same))
        /\ SteppedBinary("NotEqual") => Pushed(Bool(~same))

\* an Array was compared with itself and Equal pushed false
C11_Witness ==
    /\ SteppedBinary("Equal")
    /\ LastLeft.t = "Array"
    /\ LastRight = LastLeft
    /\ Pushed(Bool(FALSE))

\* C12: only Bool(false) and None are falsey.  JumpIfFalse jumps exactly on
\* those two and falls through on every other value, Number(0) and the empty
\* String included, leaving the stack as it was; Not pops one value and pushes
\* Bool(true) exactly for those two.
C12_Truthiness ==
    LET falsey == Top(last.stack) \in {Bool(FALSE), None}
    IN  /\ Stepped("JumpIfFalse") /\ last.stack # <<>> =>
                /\ status = "running"
                /\ stack = last.stack
                /\ frames = [last.frames EXCEPT ![Len(last.frames)].ip =
                                LastFrame.ip + 1 + (IF falsey THEN last.ins.offset ELSE 0)]
        /\ Stepped("Not") /\ last.stack # <<>> =>
                /\ status = "running"
                /\ stack = Front(last.stack, Len(last.stack) - 1) \o <<Bool(falsey)>>

\* JumpIfFalse with a jump to make fell through on the empty String
C12_Witness ==
    /\ Stepped("JumpIfFalse")
    /\ last.ins.offset > 0
    /\ last.stack = <<String(<<>>)>>
    /\ Cur.ip = LastFrame.ip + 1
    /\ stack = last.stack

\* the textual form of Number, Bool, None and String operands: decimal digits
\* for the whole numbers of the scenarios, true/false, none, the text itself
Text(c) ==
    CASE c.t = "Number" -> (IF c.n < 0 THEN <<"-">> ELSE <<>>) \o <<Digit(Abs(c.n))>>
      [] c.t = "Bool" -> IF c.b THEN <<"t", "r", "u", "e">> ELSE <<"f", "a", "l", "s", "e">>
      [] c.t = "None" -> <<"n", "o", "n", "e">>
      [] c.t = "String" -> c.s

\* a + b as the language defines it for Numbers and Strings
Plus(a, b) ==
    IF IsString(a) \/ IsString(b) THEN String(Text(a) \o Text(b))
    ELSE Number(a.n + b.n)

\* C13: Add with at least one String operand never fails and pushes the
\* left operand's text followed by the right operand's text (Number in
\* decimal form, Bool as true/false, None as none); + groups to the left, so
\* `var r = a + b + c` binds r to (a + b) + c: 1 + 2 + "x" is "3x" and
\* "x" + 1 + 2 is "x12".
C13_AddConcatenates ==
    /\ SteppedBinary("Add") /\ (IsString(LastLeft) \/ IsString(LastRight)) =>
            /\ status = "running"
            /\ Len(stack) = Len(last.stack) - 1
            /\ IsString(Top(stack))
            /\ {LastLeft.t, LastRight.t} \subseteq Comparable =>
                    Pushed(String(Text(LastLeft) \o Text(LastRight)))
    /\ input.kind = "concat" =>
            /\ status \notin {"error", "panic"}
            /\ status = "ok" =>
                    globals["r"] = Plus(Plus(input.a, input.b), input.c)

\* 1 + 2 + "x" has run and r is "3x"
C13_Witness ==
    /\ input.kind = "concat"
    /\ <<input.a, input.b, input.c>> = <<Number(1), Number(2), String(<<"x">>)>>
    /\ status = "ok"
    /\ globals["r"] = String(<<"3", "x">>)

\* "x" + 1 + 2 has run and r is "x12"
C13_WitnessStringFirst ==
    /\ input.kind = "concat"
    /\ <<input.a, input.b, input.c>> = <<String(<<"x">>), Number(1), Number(2)>>
    /\ status = "ok"
    /\ globals["r"] = String(<<"x", "1", "2">>)

\* the items of an indexable subject: the characters of a String as
\* one-character Strings, the elements of an Array
Items(v) ==
    IF IsString(v) THEN [i \in 1 .. Len(v.s) |-> String(<<v.s[i]>>)] ELSE v.elems

Indexable == {"String", "Array"}

WritesOf(name) == {i \in 1 .. Len(written) : written[i].name = name}
Latest(name) ==
    written[CHOOSE i \in WritesOf(name) : \A j \in WritesOf(name) : j <= i].value

\* C15: GetGlobal of a name missing from the global table makes interpret()
\* return UndefinedGlobal, pushing nothing and leaving the table as it was;
\* GetGlobal of a present name pushes the value most recently stored under it.
C15_GetGlobal ==
    Stepped("GetGlobal") =>
        /\ globals = last.globals
        /\ IF last.ins.name \in DOMAIN last.globals
           THEN /\ status = "running"
                /\ stack = last.stack \o <<Latest(last.ins.name)>>
           ELSE /\ Failed("UndefinedGlobal")
                /\ stack = last.stack

\* a name written more than once was read, and the read gave the last value
C15_Witness ==
    /\ Stepped("GetGlobal")
    /\ status = "running"
    /\ \E i, j \in WritesOf(last.ins.name) : i < j /\ written[i].value # written[j].value
    /\ Top(stack) = Latest(last.ins.name)

\* a read of a name nobody has written
C15_WitnessMissing ==
    /\ Stepped("GetGlobal")
    /\ last.globals # <<>>
    /\ WritesOf(last.ins.name) = {}
    /\ Failed("UndefinedGlobal")

\* C16: a Call(n) whose callee, the value n below the top, is neither a
\* Function nor a BuiltInMethod makes interpret() return NotCallable; no frame
\* is pushed and the stack stays as it was.
C16_NotCallable ==
    Stepped("Call") /\ Len(last.stack) > last.ins.n
    /\ LastCallee.t \notin {"Function", "BuiltInMethod"} =>
        /\ Failed("NotCallable")
        /\ frames = last.frames
        /\ stack = last.stack
        /\ natlog = last.natlog

\* a String under two arguments was called
C16_Witness ==
    /\ Stepped("Call")
    /\ last.ins.n = 2
    /\ Len(last.stack) > 3
    /\ IsString(LastCallee)
    /\ Failed("NotCallable")

\* C17: natives and script globals share one table, and the last write wins:
\* after any registrations by define_built_in_fn and any DefineGlobal and
\* SetGlobal, the table binds exactly the names written, each to the value of
\* the latest write under it; a script global named as a native replaces the
\* native, and a redeclaration replaces the earlier binding without error.
C17_LastWriteWins ==
    /\ DOMAIN globals = {written[i].name : i \in 1 .. Len(written)}
    /\ \A name \in DOMAIN globals : globals[name] = Latest(name)
    /\ last.ins.op \in {"DefineGlobal", "SetGlobal"} /\ last.stack # <<>> =>
            /\ status = "running"
            /\ globals[last.ins.name] = Top(last.stack)

\* the script has bound a Number to the name two natives were registered under
C17_Witness ==
    /\ Len(written) >= 3
    /\ written[1].name = "print" /\ written[1].value.t = "BuiltInMethod"
    /\ written[2].name = "print" /\ written[2].value.t = "BuiltInMethod"
    /\ written[1].value # written[2].value
    /\ last.ins.op \in {"DefineGlobal", "SetGlobal"}
    /\ IsNumber(globals["print"])

ParseDone == parser.phase = "done"

\* C18: parse() attempts every declaration of the stream; it returns an error
\* exactly when an error was recorded, and the text holds the message of
\* every recorded error in source order, also when a later token yields a
\* tokenizer error during recovery; with no error recorded it returns Ok and
\* declarations holds one node per non-empty declaration in source order.
C18_ParseReportsEveryError ==
    ParseDone =>
        /\ is_at_end(parser.p) /\ parser.p.rest = <<>>
        /\ parser.result.ok <=> parser.pushed = <<>>
        /\ ~parser.result.ok =>
                \E pre, post \in {<<>>} \cup {SubSeq(parser.result.e, i, j) :
                                                i, j \in 1 .. Len(parser.result.e)} :
                    parser.result.e = pre \o parser.pushed \o post
        /\ parser.result.ok /\ input.kind = "parse" =>
                parser.declarations = PieceNodes(input.pieces)

\* C19: compiling a `for` statement ends in a reported compile error, neither
\* in an unwound thread nor in a chunk holding bytecode for the loop.
Compiled == parser.phase = "compiled"
HasFor == \E i \in 1 .. Len(parser.declarations) : parser.declarations[i].k = "For"
C19_ForIsCompileError ==
    (Compiled /\ HasFor) => (status = "error" /\ parser.chunk = <<>>)

\* C20: of two instances whose steps are interleaved in any order, no step
\* of one changes the other's stack, global table or call frames (a step
\* leaves the waiting instance as it is, a switch hands both over as they
\* are), and an instance that has finished holds the result of running alone.
Finished(vm) == vm.status \in {"ok", "error", "panic"}
ResultOf(vm) == [status |-> vm.status, error |-> vm.error, natlog |-> vm.natlog]
Alone(scenario) ==
    IF scenario.defines
    THEN [status |-> "ok", error |-> "",
          natlog |-> <<[name |-> "send", args |-> <<Number(scenario.v)>>]>>]
    ELSE [status |-> "error", error |-> "UndefinedGlobal", natlog |-> <<>>]
ResultAsAlone(vm) ==
    (vm.status # "none" /\ vm.input.kind = "isolated" /\ Finished(vm))
        => ResultOf(vm) = Alone(vm.input)
OtherUntouched ==
    \/ other' = other
    \/ other' = ThisInstance /\ ThisInstance' = other
C20_InstancesIsolated ==
    /\ [](ResultAsAlone(ThisInstance) /\ ResultAsAlone(other))
    /\ [][OtherUntouched]_vars

\* one instance has finished with its own value sent while the other, begun
\* before that, is running with another value under the same global name
C20_Witness ==
    /\ status = "ok" /\ input.kind = "isolated" /\ input.defines
    /\ ResultOf(ThisInstance) = Alone(input)
    /\ other.status = "running" /\ other.input.kind = "isolated" /\ other.input.defines
    /\ other.input.v # input.v
    /\ "x" \in DOMAIN other.globals /\ other.globals["x"] = Number(other.input.v)
    /\ other.stack # <<>>

\* C21: a jump offset counts from the jump's own index p: after Jump(k), and
\* after JumpIfFalse(k) on a falsey top, the frame's ip is p + k; after
\* JumpIfFalse(k) on a truthy top it is p + 1.
JumpTaken ==
    \/ Stepped("Jump")
    \/ Stepped("JumpIfFalse") /\ last.stack # <<>> /\ is_falsey(Top(last.stack))
JumpNotTaken ==
    Stepped("JumpIfFalse") /\ last.stack # <<>> /\ ~is_falsey(Top(last.stack))
C21_JumpFromOwnPosition ==
    /\ JumpTaken =>
            /\ status = "running" /\ Len(frames) = Len(last.frames)
            /\ Cur.function = LastFrame.function
            /\ Cur.ip = LastFrame.ip + last.ins.offset
    /\ JumpNotTaken =>
            /\ status = "running" /\ Len(frames) = Len(last.frames)
            /\ Cur.ip = LastFrame.ip + 1

\* the chunk of an if program: the indices (from 0) of the jump after the
\* condition and of the jump that ends the then-path, and the index after the
\* else block
IfChunk == Compiled /\ input.kind = "program" /\ input.shape = "if"
ThenJump == input.about.start + input.about.cond
ElseJump == ThenJump + 1 + input.about.then + 1
AfterElse == ElseJump + 1 + 1 + input.about.else
At(code, index) == code[index + 1]

\* C22: in the chunk of an if statement the instruction after the condition
\* is a JumpIfFalse whose target is the Pop right after the jump that ends the
\* then-path, and that jump is an unconditional Jump whose target is the
\* first instruction after the else block.
C22_IfJumpsPatched ==
    IfChunk =>
        /\ status = "compiled"
        /\ Len(parser.chunk) = AfterElse + input.about.after
        /\ At(parser.chunk, ThenJump).op = "JumpIfFalse"
        /\ ThenJump + At(parser.chunk, ThenJump).offset = ElseJump + 1
        /\ At(parser.chunk, ElseJump + 1) = IPop
        /\ At(parser.chunk, ElseJump).op = "Jump"
        /\ ElseJump + At(parser.chunk, ElseJump).offset = AfterElse

\* the stack position a local instruction addresses: slot_offset + index of
\* the innermost frame, counted from 0
LastSlot == LastFrame.slot_offset + last.ins.index

\* C23: SetGlobal and SetLocal leave the stack as high as it was with the
\* assigned value still on top, and the named global, or the addressed slot
\* of the current frame, holds that value.
C23_SetKeepsValue ==
    /\ Stepped("SetGlobal") /\ last.stack # <<>> =>
            /\ status = "running"
            /\ stack = last.stack
            /\ last.ins.name \in DOMAIN globals
            /\ globals[last.ins.name] = Top(last.stack)
    /\ Stepped("SetLocal") /\ last.stack # <<>> /\ LastSlot < Len(last.stack) =>
            /\ status = "running"
            /\ Len(stack) = Len(last.stack)
            /\ Top(stack) = Top(last.stack)
            /\ stack[LastSlot + 1] = Top(last.stack)

\* C24: GetLocal(i) and SetLocal(i) address position slot_offset + i of the
\* innermost frame; a position outside the live stack ends interpret() with
\* InvalidLocalAccess, for a read and for a write, and a position inside it is
\* read or written.
C24_LocalOutsideStackIsFatal ==
    /\ Stepped("GetLocal") /\ LastSlot < Len(last.stack) =>
            (status = "running" /\ stack = last.stack \o <<last.stack[LastSlot + 1]>>)
    /\ Stepped("GetLocal") /\ LastSlot >= Len(last.stack) =>
            Failed("InvalidLocalAccess") /\ stack = last.stack
    /\ Stepped("SetLocal") /\ LastSlot < Len(last.stack) - 1 =>
            status = "running" /\ stack[LastSlot + 1] = Top(last.stack)
    /\ Stepped("SetLocal") /\ LastSlot >= Len(last.stack) =>
            Failed("InvalidLocalAccess")

\* the chunk around a function declaration: what the declaration itself adds
\* starts at about.start and the statements after it follow
FunctionChunk == Compiled /\ input.kind = "program" /\ input.shape = "function"
Declared == At(parser.chunk, input.about.start)

\* C25: a function declaration adds to the enclosing chunk the Constant push
\* of the compiled Function and, at depth 0, the DefineGlobal of its name (in
\* a scope no instruction, the value being the local), and nothing else: no
\* Pop for its parameters, however many.
C25_FunctionDeclarationAdds ==
    FunctionChunk =>
        /\ status = "compiled"
        /\ Declared.op = "Constant" /\ Declared.c.t = "Function"
        /\ Declared.c.name = "f" /\ Declared.c.arity = input.about.arity
        /\ ~input.about.inblock =>
                /\ At(parser.chunk, input.about.start + 1) = IDefineGlobal("f")
                /\ Len(parser.chunk) = input.about.start + 2 + input.about.after
        /\ input.about.inblock =>
                /\ Len(parser.chunk) = input.about.start + 1 + input.about.after + 1
                /\ At(parser.chunk, Len(parser.chunk) - 1) = IPop

\* the chunks of the Function constants of a chunk, nested ones included
RECURSIVE FunctionChunks(_)
FunctionChunks(code) ==
    UNION {{code[i].c.chunk} \cup FunctionChunks(code[i].c.chunk) :
             i \in {j \in DOMAIN code : code[j].op = "Constant" /\ code[j].c.t = "Function"}}
EndsWithReturn(code) == code # <<>> /\ code[Len(code)] = IReturn

\* C26: every chunk the compiler hands out ends with Return, the chunk of
\* each function and the chunk of the top-level declarations alike.
C26_ChunksEndWithReturn ==
    (Compiled /\ status = "compiled") =>
        /\ EndsWithReturn(parser.chunk)
        /\ \A code \in FunctionChunks(parser.chunk) : EndsWithReturn(code)

\* the variable reads of a chunk, in order
IsRead(ins) == ins.op \in {"GetLocal", "GetGlobal"}
Reads(code) == SelectSeq(code, IsRead)
ShadowChunk ==
    /\ Compiled /\ status = "compiled"
    /\ input.kind = "program" /\ input.shape = "shadow"
MainChunk == At(parser.chunk, 0).c.chunk
\* the slots of the three bindings of x: a slot is the binding's place among
\* the live locals, counted from 1
OuterSlot == 1        \* resolve_local: index 0 of the locals, + 1 for the callee's slot
InnerSlot == IF input.about.with_y THEN 3 ELSE 2
InnermostSlot == InnerSlot + 1

\* C27: a reference compiles to the newest live local of its name: to the
\* inner binding while the redeclaring scope is open, to the outer binding
\* again once it has ended, and to a global read by name when no local of
\* that name is live.
C27_NewestLiveLocal ==
    ShadowChunk =>
        Reads(MainChunk) =
            <<IGetLocal(OuterSlot), IGetLocal(InnerSlot)>>
            \o (IF input.about.deeper THEN <<IGetLocal(InnermostSlot)>> ELSE <<>>)
            \o <<IGetLocal(InnerSlot), IGetLocal(OuterSlot), IGetGlobal("z")>>

\* the program with y and the innermost block has been compiled, x reading
\* slot 1, 3, 4, 3 and 1 again
C27_Witness ==
    /\ ShadowChunk /\ input.about.with_y /\ input.about.deeper
    /\ Reads(MainChunk) = <<IGetLocal(1), IGetLocal(3), IGetLocal(4), IGetLocal(3),
                            IGetLocal(1), IGetGlobal("z")>>

\* main's chunk in a block scenario; the block's code lies between the push
\* of a's value (index 0) and the push of d's value
BlockMain == input.script.chunk[1].c.chunk
RECURSIVE IndexOf(_, _)
IndexOf(code, ins) == IF Head(code) = ins THEN 0 ELSE 1 + IndexOf(Tail(code), ins)
AfterBlock == IndexOf(BlockMain, IConstant(Number(4)))
BlockCode == SubSeq(BlockMain, 2, AfterBlock)
IsPop(ins) == ins = IPop

\* C28: the code of a block holds one Pop per local the block declares (and
\* one per expression statement), and when the block has run to its end the
\* stack is as high as before it, the locals of the enclosing scope being
\* where they were and the next local taking the slot after them: main
\* prints a = 1 and d = 4 and ends normally.
C28_BlockRestoresStack ==
    input.kind = "block" =>
        /\ Len(SelectSeq(BlockCode, IsPop)) = input.body.pops
        /\ status \notin {"error", "panic"}
        /\ (Fetched("Constant") /\ Cur.function.name = "main" /\ Cur.ip = AfterBlock) =>
                /\ Len(stack) = Cur.slot_offset + 2
                /\ Top(stack) = Number(1)
        /\ status = "ok" => natlog = <<Output(<<Number(1), Number(4)>>)>>

\* the instructions VM::run has an arm for
Dispatch ==
    {"Constant", "Add", "Subtract", "Divide", "Multiply", "GetGlobal", "DefineGlobal",
     "SetGlobal", "GetLocal", "SetLocal", "Pop", "Call", "JumpIfFalse", "Jump", "Equal",
     "NotEqual", "Greater", "GreaterEq", "Lesser", "LesserEq", "Not", "IndexInto",
     "ArrayLiteral", "Return"}

\* the code of the operator's operands in an operator program
OperandCode ==
    IF input.about.unary THEN <<IConstant(Number(1))>>
    ELSE <<IConstant(Number(1)), IConstant(Number(2))>>

\* C29: every operator node the parser produces (binary arithmetic and
\* comparison, unary ! and -, && and ||) compiles, without aborting the
\* compiler, to the code of its operands followed by one instruction, and
\* that instruction is one the VM's dispatch executes.
C29_OperatorsCompile ==
    (Compiled /\ input.kind = "program" /\ input.shape = "operator") =>
        /\ status = "compiled"
        /\ Len(parser.chunk) = Len(OperandCode) + 2
        /\ SubSeq(parser.chunk, 1, Len(OperandCode)) = OperandCode
        /\ parser.chunk[Len(OperandCode) + 1].op \in Dispatch
        /\ parser.chunk[Len(parser.chunk)] = IPop

\* the code of 3 + 1
SumCode == <<IConstant(Number(3)), IConstant(Number(1)), IAdd>>

\* C30: `x = 3 + 1;` compiles to the code of 3 + 1 followed by one set
\* instruction, SetLocal(slot) when a live local x exists and SetGlobal(x)
\* otherwise (then the Pop of the expression statement, and the Pop of the
\* block's local).
C30_AssignCompiles ==
    (Compiled /\ input.kind = "program" /\ input.shape = "assign") =>
        /\ status = "compiled"
        /\ parser.chunk =
              IF input.about.local
              THEN <<IConstant(Number(0))>> \o SumCode \o <<ISetLocal(1), IPop, IPop>>
              ELSE SumCode \o <<ISetGlobal("x"), IPop>>

\* the call of synchronize() of the last turn of parse(): the tokens it was
\* called on (the current one first) and how many of them it consumed
SyncCalled == parser.phase \in {"parsing", "done"} /\ parser.synced # <<>>
SyncBefore == parser.synced[1].before
SyncAfter == parser.synced[1].after
SyncTokens == <<SyncBefore.current>> \o SyncBefore.rest
SyncConsumed ==
    IF is_at_end(SyncBefore) THEN 0
    ELSE 1 + Len(SyncBefore.rest) - Len(SyncAfter.rest)
       - (IF is_at_end(SyncAfter) THEN 0 ELSE 1)
SyncKeywords == {"Func", "For", "If", "Ret", "End", "Else"}

\* after j tokens are consumed: the input is at its end, or the last token
\* consumed is a delimiter, or the current token is a keyword of recovery
SyncPoint(j) ==
    \/ j >= Len(SyncTokens)
    \/ SyncTokens[j].k = "ExprDelimiter"
    \/ SyncTokens[j + 1].k \in SyncKeywords

\* C31: synchronize() consumes at least one token and returns only at the
\* end of input, after a delimiter or before func, for, if, ret, end, else,
\* and at the first such point: no token is consumed past it.
C31_SynchronizeStopsAtBoundary ==
    SyncCalled =>
        /\ parser.synced[1].ok
        /\ SyncConsumed >= 1
        /\ SyncPoint(SyncConsumed)
        /\ \A j \in 1 .. SyncConsumed - 1 : ~SyncPoint(j)

ParsedProgram(shape) == parser.phase = "done" /\ input.kind = "program" /\ input.shape = shape

\* C32: a call takes the tokens from `(` to its `)`: `f(); 1;` parses to the
\* statements Call(f, no arguments) and 1, `f(a, b);` to Call(f, [a, b]),
\* `f(a)(b);` to Call(Call(f, [a]), [b]), and an argument list followed by a
\* token that is neither `,` nor `)` is a parse error.
C32_CallTakesItsParentheses ==
    ParsedProgram("call") =>
        IF input.about.valid
        THEN parser.result.ok /\ parser.declarations = input.about.nodes
        ELSE ~parser.result.ok

\* the ladder of the grammar: the level of each operator, `=` lowest
LadderLevel(kind) ==
    CASE kind = "Equal" -> 0
      [] kind = "Or" -> 1
      [] kind = "And" -> 2
      [] kind \in {"EqualEqual", "NotEqual"} -> 3
      [] kind \in {"Greater", "GreaterEq", "Less", "LessEq"} -> 4
      [] kind \in {"Plus", "Minus"} -> 5
      [] kind \in {"Slash", "Star"} -> 6

\* the operand at position i of the expression, under its prefix if it has one
LadderOperand(i) ==
    IF input.about.pos = i
    THEN NUnary(IF input.about.prefix = "Bang" THEN "Not" ELSE "Negate",
                NVarGet(OperandNames[i]))
    ELSE NVarGet(OperandNames[i])

\* the operator at which operands lo .. hi split: the one of the lowest
\* level, the last of them (the first, for `=`)
LadderSplit(lo, hi) ==
    LET ops == input.about.ops
        low == CHOOSE l \in 0 .. 6 :
                  /\ \E i \in lo .. hi - 1 : LadderLevel(ops[i]) = l
                  /\ \A i \in lo .. hi - 1 : LadderLevel(ops[i]) >= l
        at == {i \in lo .. hi - 1 : LadderLevel(ops[i]) = low}
    IN  CHOOSE i \in at : \A j \in at : IF low = 0 THEN i <= j ELSE i >= j

\* the tree the ladder gives operands lo .. hi
RECURSIVE LadderTree(_, _)
LadderTree(lo, hi) ==
    IF lo = hi THEN LadderOperand(lo)
    ELSE LET i == LadderSplit(lo, hi)
             kind == input.about.ops[i]
             left == LadderTree(lo, i)
             right == LadderTree(i + 1, hi)
         IN  IF kind = "Equal" THEN NAssign(left.name, right)
             ELSE IF kind \in {"Or", "And"} THEN NLogical(left, RuleOp(kind), right)
             ELSE NBinary(left, RuleOp(kind), right)

\* every `=` of the expression stands right after a bare variable that
\* begins the expression or follows another `=`
BareTargets ==
    \A i \in DOMAIN input.about.ops :
        input.about.ops[i] = "Equal" =>
            /\ input.about.pos # i
            /\ i = 1 \/ input.about.ops[i - 1] = "Equal"

\* the expression statement of the program whose operators are ops, no
\* operand under a prefix, has parsed to the node
ParsesTo(ops, node) ==
    (ParsedProgram("expression") /\ input.about.pos = 0 /\ input.about.ops = ops) =>
        parser.declarations = <<NExprStmt(node)>>
VarA == NVarGet("a")
VarB == NVarGet("b")
VarC == NVarGet("c")

\* C33: an expression parses to the tree of the precedence ladder (`=`, ||,
\* &&, equality, comparison, term, factor), binary operators grouping to the
\* left and `=` to the right, a prefix operator binding its operand before
\* any binary operator; so a + b * c is Add(a, Mul(b, c)), a - b - c is
\* Sub(Sub(a, b), c), a < b == c is Equal(Less(a, b), c) and a || b && c is
\* Or(a, And(b, c)).
C33_PrecedenceLadder ==
    /\ (ParsedProgram("expression") /\ BareTargets) =>
            /\ parser.result.ok
            /\ parser.declarations = <<NExprStmt(LadderTree(1, Len(input.about.ops) + 1))>>
    /\ ParsesTo(<<"Plus", "Star">>, NBinary(VarA, "Add", NBinary(VarB, "Mul", VarC)))
    /\ ParsesTo(<<"Minus", "Minus">>, NBinary(NBinary(VarA, "Sub", VarB), "Sub", VarC))
    /\ ParsesTo(<<"Less", "EqualEqual">>,
                NBinary(NBinary(VarA, "Less", VarB), "Equal", VarC))
    /\ ParsesTo(<<"Or", "And">>, NLogical(VarA, "Or", NLogical(VarB, "And", VarC)))

\* -a * b + c has parsed: the prefix first, then the factor, then the term
C33_Witness ==
    /\ ParsedProgram("expression")
    /\ input.about.ops = <<"Star", "Plus">> /\ input.about.pos = 1
    /\ input.about.prefix = "Minus"
    /\ parser.declarations =
          <<NExprStmt(NBinary(NBinary(NUnary("Negate", VarA), "Mul", VarB), "Add", VarC))>>

\* the error of Parser::assignment for a target that is no bare variable
InvalidTarget == <<[msg |-> "Invalid target for assignment", at |-> 0]>>

\* C34: `target = 2;` parses to Assign(a, 2) when the target is the bare
\* variable a; for any other target (a literal, a call, a grouping, a binary
\* expression) parse() fails with the invalid-target error and no node is
\* produced.
C34_OnlyVariablesAreAssigned ==
    ParsedProgram("target") =>
        IF input.about.target = "variable"
        THEN /\ parser.result.ok
             /\ parser.declarations = <<NExprStmt(NAssign("a", NNumber(<<"2">>)))>>
        ELSE /\ ~parser.result.ok
             /\ parser.result.e = InvalidTarget
             /\ parser.declarations = <<>>

\* the values of main's locals in a nested-function scenario
EnclosingValues == [i \in 1 .. input.enclosing |-> Number(EnclosingValue(i))]

\* the function g of a nested-function scenario, as main's chunk holds it
NestedMain == input.script.chunk[1].c.chunk
NestedFunction ==
    LET at == CHOOSE i \in DOMAIN NestedMain :
                 NestedMain[i].op = "Constant" /\ NestedMain[i].c.t = "Function"
    IN  NestedMain[at].c

\* C35: in a function g(a) declared in main's body after main's locals, the
\* reference to a compiles to slot 1 of g's frame (the callee in slot 0, the
\* first argument above it) and reads the argument of the call, and declaring g leaves
\* main's locals where they were: when g's value is pushed the stack holds
\* main's callee slot and its locals, and main prints g(p) = p followed by
\* the locals' values.
C35_NestedFunctionSlots ==
    input.kind = "nested" =>
        /\ NestedFunction.chunk[1] = IGetLocal(1)
        /\ status \notin {"error", "panic"}
        /\ (Stepped("Constant") /\ last.fn = "main" /\ last.ins.c.t = "Function") =>
                /\ Len(last.stack) = LastFrame.slot_offset + 1 + input.enclosing
                /\ SubSeq(last.stack, LastFrame.slot_offset + 2, Len(last.stack))
                     = EnclosingValues
        /\ (Stepped("Return") /\ last.fn = "g") =>
                status = "running" /\ Top(stack) = Number(input.x)
        /\ status = "ok" =>
                natlog = <<Output(<<Number(input.x)>> \o EnclosingValues)>>

\* the scenarios whose bytecode the compiler produced (the host's epilogue
\* appended)
FromCompiler ==
    input.kind \in {"concat", "redeclare", "block", "function", "nested", "if", "lastif"}

\* the values an instruction takes from the stack, by pop or by peek
Needs(ins) ==
    CASE ins.op \in {"Add", "Subtract", "Multiply", "Divide", "Equal", "NotEqual",
                     "Greater", "GreaterEq", "Lesser", "LesserEq", "IndexInto"} -> 2
      [] ins.op \in {"DefineGlobal", "SetGlobal", "SetLocal", "Pop", "Not",
                     "JumpIfFalse", "Return"} -> 1
      [] ins.op = "Call" -> ins.n + 1
      [] ins.op = "ArrayLiteral" -> ins.count
      [] OTHER -> 0

\* C36: running a program the compiler produced, every instruction finds on
\* the stack the values it pops or peeks, and interpret() never aborts on a
\* missing one.
C36_NoStackUnderflow ==
    (FromCompiler /\ last.ins.op \notin {"none", "fetch"}) =>
        /\ Len(last.stack) >= Needs(last.ins)
        /\ status # "panic"

SameActivation ==
    /\ status = "running" /\ status' = "running"
    /\ Len(frames') = Len(frames)
    /\ frames # <<>>

\* a return to the caller: the caller's frame is the innermost one again
BackInCaller ==
    /\ status = "running" /\ status' = "running"
    /\ Len(frames') = Len(frames) - 1

\* C38: within one activation of a frame the instruction pointer only grows
\* (by a step, by a jump, and in the caller by the return of the callee), so
\* every run of a program the compiler produced, none of them calling a
\* function recursively, ends: interpret() returns success or a runtime error.
C38_RunsEnd ==
    /\ [][/\ SameActivation => frames'[Len(frames')].ip > Cur.ip
          /\ BackInCaller => frames'[Len(frames')].ip > frames[Len(frames')].ip]_vars
    /\ <>(FromCompiler => status \in {"ok", "error"})

\* the tokens a parser has not consumed: the current one and those to draw
Remaining(p) == IF is_at_end(p) THEN 0 ELSE 1 + Len(p.rest)

\* the parser standing at token i of the input
ParserAt(i) ==
    LET results == Tokenizer(input.tokens)
    IN  [current |-> results[i], rest |-> SubSeq(results, i + 1, Len(results))]

\* one turn of the loop of parse() or of block() from parser p: the
\* declaration, or the recovery after its failure, has consumed a token,
\* unless the failure left the parser at the end of input or the tokenizer
\* has returned an Err (the loop is then left)
TurnConsumes(p) ==
    LET d == declaration(p)
        s == synchronize(d.p)
    IN  IF d.ok THEN Remaining(d.p) < Remaining(p)
        ELSE \/ ~s.ok
             \/ Remaining(s.p) < Remaining(p)
             \/ is_at_end(s.p)

ParseOver == parser.phase \notin {"new", "parsing"}

\* C39: parse() ends on every token sequence: wherever in the input a turn
\* of the loop of parse() or of block() starts, it consumes a token or
\* leaves the parser at the end of input (the failing token being end, else
\* or another keyword of recovery included), each turn parse() makes leaves
\* fewer tokens, and parse() returns.
C39_ParseEnds ==
    /\ [](parser.phase = "new" =>
            \A i \in DOMAIN input.tokens :
                input.tokens[i].k # "Error" => TurnConsumes(ParserAt(i)))
    /\ [][(parser.phase = "parsing" /\ parser'.phase = "parsing") =>
              Remaining(parser'.p) < Remaining(parser.p)]_vars
    /\ <>ParseOver

\* parse() has returned after recovering from a failure at `else` within a
\* block: func f: else 1; end
C39_Witness ==
    /\ ParsedProgram("recover")
    /\ Len(input.tokens) >= 4 /\ input.tokens[4].k = "Else"
    /\ ~parser.result.ok

====
